---- MODULE Spec2Model ----
(***************************************************************************)
(* Callora backend: the settlement batcher (RevenueSettlementService) and  *)
(* the /v1/call proxy pipeline (handleProxy), with the stores they share.  *)
(***************************************************************************)
EXTENDS Integers, Sequences, FiniteSets, TLC

\* ---------------------------------------------------------------- bounds
MaxEvents == 3          \* usage events recorded in one behaviour
MaxRuns == 2            \* runBatch invocations in one behaviour
MinPayoutUsdc == 2      \* options.minPayoutUsdc of the modelled service
MaxAmount == MinPayoutUsdc  \* largest charge of a directly recorded event
MaxEventsPerBatch == 2  \* options.maxEventsPerBatch of the modelled service
MaxRequests == 3        \* proxied requests in one behaviour
MaxBalance == 2         \* largest initial balance of an account
Capacity == 2           \* admissions per window of the modelled rate limiter
WindowMs == 2           \* window length of the modelled rate limiter
MaxTime == WindowMs     \* last instant of the clock: one full window later

\* ---------------------------------------------------------------- values
None == "none"          \* undefined / null / absent

\* JavaScript numbers: a finite number, NaN, or a missing property.
Num(n) == [k |-> "num", v |-> n]
NaN == [k |-> "nan", v |-> 0]
Undefined == [k |-> "undefined", v |-> 0]

\* a <= b on JavaScript numbers: false as soon as one side is not a number.
JsLe(a, b) == a.k = "num" /\ b.k = "num" /\ a.v <= b.v
\* a < b on JavaScript numbers.
JsLt(a, b) == a.k = "num" /\ b.k = "num" /\ a.v < b.v
\* a + b on JavaScript numbers: undefined and NaN poison the sum.
JsAdd(a, b) == IF a.k = "num" /\ b.k = "num" THEN Num(a.v + b.v) ELSE NaN

Runners == {1, 2}       \* logical tasks that may execute runBatch

VARIABLES
  byId,         \* InMemoryApiRegistry.byId
  bySlug,       \* InMemoryApiRegistry.bySlug
  events,       \* the usage store: sequence of usage events, in insertion order
  settlements,  \* InMemorySettlementStore.settlements
  batch,        \* per runner: the position and locals of its runBatch call
  calls,        \* history: the settlementClient.distribute calls made so far
  answer,       \* history: the latest answer of distribute, and to which call
  runs,         \* history: number of runBatch invocations so far
  req,          \* per request: the position and locals of its handleProxy call
  balances,     \* the billing ledger: balance of each account
  balance0,     \* history: the balances at start-up
  windows,      \* the rate limiter: window start and count of each credential
  now,          \* the clock
  registered,   \* history: the entries passed to registry.register so far
  fwd,          \* one request's inbound headers and the header set sent upstream
  probe,        \* one request at admission control, with the limiter's answer
  limiter,      \* a rate limiter of any capacity, with the checks made on it
  keyStore,     \* apiKeyRepository: the stored keys, with the revoke calls made
  page,         \* one GET /api/developers/revenue query and its response
  summary,      \* history: the revenue summaries served so far
  options       \* RevenueSettlementService.options

settleVars == <<events, settlements, batch, calls, answer, runs>>
registryVars == <<byId, bySlug, registered>>
pureVars == <<fwd, probe, limiter, keyStore, page, summary>>
settleStores == <<settlements, batch, calls, answer, runs>>
proxyVars == <<req, balances, balance0, windows, now>>

\* Mutant of randomUUID: every call returns the same id.
randomUUIDFixed(used) == ToString(1)

\* randomUUID(): an id that none of the `used` earlier calls has returned.
randomUUID(used) == ToString(used + 1)

\* ------------------------------------------------------------- registry
SEED_ENTRIES ==
  << [id |-> "api_001", slug |-> "weather-api", developerId |-> "dev_001"],
     [id |-> "api_002", slug |-> "translation-api", developerId |-> "dev_002"] >>

RECURSIVE RegisterAll(_, _)
RegisterAll(entries, m) ==
  IF entries = <<>> THEN m
  ELSE LET entry == Head(entries) IN
       RegisterAll(Tail(entries),
         [id |-> [x \in DOMAIN m.id \cup {entry.id} |->
                     IF x = entry.id THEN entry ELSE m.id[x]],
          slug |-> [x \in DOMAIN m.slug \cup {entry.slug} |->
                     IF x = entry.slug THEN entry ELSE m.slug[x]]])

EmptyMap == [x \in {} |-> None]

\* registry.resolve(slugOrId): by id first, then by slug, else undefined.
resolve(slugOrId) ==
  IF slugOrId \in DOMAIN byId THEN byId[slugOrId]
  ELSE IF slugOrId \in DOMAIN bySlug THEN bySlug[slugOrId]
  ELSE [id |-> None, slug |-> None, developerId |-> None]

Resolved(entry) == entry.id # None

\* Mutant of Orphaned: an event is grouped whether or not its API resolves.
OrphanedNever(apiEntry) == FALSE

\* Line 45 of runBatch: !apiEntry
Orphaned(apiEntry) == ~Resolved(apiEntry)

\* The entry a caller registers after start-up: the API the orphaned events
\* of the tests name.
LateEntry == [id |-> "api_unknown", slug |-> "unknown-api", developerId |-> "dev_002"]

\* registry.register(entry), called once the service is running.
RegisterApi ==
  /\ LateEntry.id \notin DOMAIN byId
  /\ LET m == RegisterAll(<<LateEntry>>, [id |-> byId, slug |-> bySlug])
     IN byId' = m.id /\ bySlug' = m.slug
  /\ registered' = registered \cup {LateEntry}
  /\ UNCHANGED <<events, settlements, batch, calls, answer, runs,
                 req, balances, balance0, windows, now, pureVars, options>>

\* The entries callers may pass to register: a new or an already registered
\* id, with a new slug, the slug of a registered entry, or a string that is
\* the id of another entry.
EntryInputs ==
  [id : {"api_001", "api_003"}, slug : {"weather-api", "new-api", "api_002"},
   developerId : {"dev_003"}]

\* registry.register(entry) with any entry.
Register(entry) ==
  /\ entry \notin registered
  /\ LET m == RegisterAll(<<entry>>, [id |-> byId, slug |-> bySlug])
     IN byId' = m.id /\ bySlug' = m.slug
  /\ registered' = registered \cup {entry}
  /\ UNCHANGED <<events, settlements, batch, calls, answer, runs,
                 req, balances, balance0, windows, now, pureVars, options>>

\* ---------------------------------------------------------- usage store
\* usageStore.getUnsettledEvents(): the events with no settlementId.
getUnsettledEvents == SelectSeq(events, LAMBDA e : e.settlementId = None)

\* usageStore.markAsSettled(eventIds, settlementId)
markAsSettled(evs, eventIds, settlementId) ==
  [i \in DOMAIN evs |->
     IF \E j \in DOMAIN eventIds : eventIds[j] = evs[i].id
     THEN [evs[i] EXCEPT !.settlementId = settlementId]
     ELSE evs[i]]

\* usageStore.record(event): append.
record(evs, event) == Append(evs, event)

EventById(id) == CHOOSE e \in {events[i] : i \in DOMAIN events} : e.id = id

\* ------------------------------------------------------ settlement store
\* Mutant of create: the record is not stored.
createNothing(store, settlement) == store

\* InMemorySettlementStore.create
create(store, settlement) == Append(store, settlement)

\* InMemorySettlementStore.updateStatus: the first record with that id gets
\* the status, and the tx hash only when one is passed.
updateStatus(store, id, status, txHash) ==
  IF \E i \in DOMAIN store : store[i].id = id
  THEN LET i == CHOOSE k \in DOMAIN store :
                  store[k].id = id /\ \A l \in 1..(k - 1) : store[l].id # id
       IN [store EXCEPT ![i] = [@ EXCEPT !.status = status,
                                       !.tx_hash = IF txHash # None THEN txHash ELSE @]]
  ELSE store

\* ------------------------------------------------- settlement client
\* What settlementClient.distribute can answer: a PayoutResult with success
\* and a hash, one with success: false, one with success and no hash (txHash
\* is optional), or a rejected promise.
TxHashes == {"0xmocktx"}
PayoutResults ==
  [success : {TRUE}, txHash : TxHashes \cup {None}, rejected : {FALSE}]
  \cup [success : {FALSE}, txHash : {None}, rejected : {FALSE}]
Rejection == [success |-> FALSE, txHash |-> None, rejected |-> TRUE]
Outcomes == PayoutResults \cup {Rejection}

\* ------------------------------------------------------------ runBatch
\* new RevenueSettlementService(..., options): a payout threshold of
\* MinPayoutUsdc or one above it, with a cap of MaxEventsPerBatch events.
ServiceOptions ==
  [minPayoutUsdc : {MinPayoutUsdc, MinPayoutUsdc + 1},
   maxEventsPerBatch : {MaxEventsPerBatch}]

\* Mutant of GroupHasRoom: the cap of a group is not enforced.
GroupHasRoomAlways(group) == TRUE

\* Line 54: group.length < maxEvents
GroupHasRoom(group) == Len(group) < options.maxEventsPerBatch

\* Lines 41-58: group the unsettled events by developer, in Map insertion
\* order, skipping non-positive charges and orphans, capping each group.
RECURSIVE GroupByDeveloper(_, _)
GroupByDeveloper(unsettled, devEvents) ==
  IF unsettled = <<>> THEN devEvents
  ELSE
    LET event == Head(unsettled)
        apiEntry == resolve(event.apiId)
        devId == apiEntry.developerId
        known == \E i \in DOMAIN devEvents : devEvents[i].developerId = devId
        idx == CHOOSE i \in DOMAIN devEvents : devEvents[i].developerId = devId
        group == IF known THEN devEvents[idx].eventIds ELSE <<>>
    IN IF JsLe(event.amountUsdc, Num(0)) THEN GroupByDeveloper(Tail(unsettled), devEvents)
       ELSE IF Orphaned(apiEntry) THEN GroupByDeveloper(Tail(unsettled), devEvents)
       ELSE IF GroupHasRoom(group)
            THEN GroupByDeveloper(Tail(unsettled),
                   IF known
                   THEN [devEvents EXCEPT ![idx].eventIds = Append(@, event.id)]
                   ELSE Append(devEvents, [developerId |-> devId, eventIds |-> <<event.id>>]))
            ELSE GroupByDeveloper(Tail(unsettled), devEvents)

\* Line 65: events.reduce((sum, e) => sum + e.amountUsdc, 0)
RECURSIVE SumAmounts(_, _)
SumAmounts(eventIds, sum) ==
  IF eventIds = <<>> THEN sum
  ELSE SumAmounts(Tail(eventIds), JsAdd(sum, EventById(Head(eventIds)).amountUsdc))

totalAmount(group) == SumAmounts(group.eventIds, Num(0))

\* Mutant of BelowMinPayout: a group at the threshold is skipped as well.
BelowMinPayoutOrEqual(total) == JsLe(total, Num(options.minPayoutUsdc))

\* Line 67: the group is skipped in this batch.
BelowMinPayout(total) == JsLt(total, Num(options.minPayoutUsdc))

\* Lines 64-70: the groups the loop still has to visit, with the ones that
\* are skipped dropped from the front.
RECURSIVE SkipSmall(_)
SkipSmall(queue) ==
  IF queue = <<>> THEN queue
  ELSE IF BelowMinPayout(totalAmount(Head(queue))) THEN SkipSmall(Tail(queue))
  ELSE queue

\* Line 92: result.success && result.txHash
PayoutSucceeded(result) == result.success /\ result.txHash # None

\* Mutant of CountSettled: a settled group counts as one processed event.
CountSettledOnce(st) ==
  [st EXCEPT !.processed = @ + 1, !.settledAmount = JsAdd(@, st.totalAmount)]

\* Lines 96-97: processed += events.length; settledAmount += totalAmount
CountSettled(st) ==
  [st EXCEPT !.processed = @ + Len(st.eventIds),
             !.settledAmount = JsAdd(@, st.totalAmount)]

IdleBatch ==
  [pc |-> "idle", queue |-> <<>>, settlementId |-> None, developerId |-> None,
   eventIds |-> <<>>, totalAmount |-> Num(0),
   processed |-> 0, settledAmount |-> Num(0), errors |-> 0, run |-> 0,
   returned |-> FALSE, threw |-> FALSE, groups |-> <<>>,
   during |-> 0]   \* history: the run in flight when this one started

\* Mutant of SettleEvents: the success branch forgets to mark the events.
SettleEventsSkipped(evs, eventIds, settlementId) == evs

\* Line 94: this.usageStore.markAsSettled(eventIds, settlementId)
SettleEvents(evs, eventIds, settlementId) == markAsSettled(evs, eventIds, settlementId)

\* Lines 64-89 for the next group that meets the payout threshold: create
\* the pending settlement, call distribute, and suspend at the await; or
\* line 106 when no group is left.  store and log are the settlement store
\* and the call history as the caller leaves them.
EnterLoop(b, st, queue, store, log) ==
  LET q == SkipSmall(queue) IN
  IF q = <<>>
  THEN /\ batch' = [batch EXCEPT ![b] = [st EXCEPT !.pc = "idle", !.queue = <<>>,
                                                  !.returned = TRUE]]
       /\ settlements' = store
       /\ calls' = log
  ELSE
    LET group == Head(q)
        total == totalAmount(group)
        settlementId == "stl_" \o randomUUID(Len(store))
        settlement == [id |-> settlementId, developerId |-> group.developerId,
                       amount |-> total, status |-> "pending", tx_hash |-> None]
    IN /\ settlements' = create(store, settlement)
       /\ calls' = Append(log, [settlementId |-> settlementId,
                                developerId |-> group.developerId,
                                amount |-> total, eventIds |-> group.eventIds,
                                run |-> st.run, during |-> st.during])
       /\ batch' = [batch EXCEPT ![b] = [st EXCEPT !.pc = "await", !.queue = Tail(q),
                                                  !.settlementId = settlementId,
                                                  !.developerId = group.developerId,
                                                  !.eventIds = group.eventIds,
                                                  !.totalAmount = total]]

\* The run another runner has in flight (0: none).
InFlightRun(b) ==
  IF \E o \in Runners \ {b} : batch[o].pc = "await"
  THEN batch[CHOOSE o \in Runners \ {b} : batch[o].pc = "await"].run
  ELSE 0

\* runBatch as the run-th invocation, from the call to its first await (or
\* to its return).
BeginBatch(b, run) ==
  /\ batch[b].pc = "idle"
  /\ LET unsettled == getUnsettledEvents
         st == [IdleBatch EXCEPT !.run = run, !.during = InFlightRun(b)]
     IN IF Len(unsettled) = 0
        THEN /\ batch' = [batch EXCEPT ![b] = [st EXCEPT !.returned = TRUE]]
             /\ UNCHANGED <<settlements, calls>>
        ELSE LET devEvents == GroupByDeveloper(unsettled, <<>>)
             IN EnterLoop(b, [st EXCEPT !.groups = devEvents], devEvents, settlements, calls)
  /\ UNCHANGED <<events, answer, registryVars, options, pureVars, proxyVars>>

\* One of the MaxRuns invocations of runBatch of a behaviour.
StartBatch(b) ==
  /\ runs < MaxRuns
  /\ runs' = runs + 1
  /\ BeginBatch(b, runs + 1)

\* The answer the runner was waiting for.
LogOutcome(b, result) == [settlementId |-> batch[b].settlementId, outcome |-> result]

\* Lines 91-103 once distribute has answered with a PayoutResult, then the
\* loop again up to the next await or the return.
DistributeResolved(b) ==
  /\ batch[b].pc = "await"
  /\ \E result \in PayoutResults :
       LET st == batch[b] IN
       /\ answer' = LogOutcome(b, result)
       /\ IF PayoutSucceeded(result)
          THEN /\ events' = SettleEvents(events, st.eventIds, st.settlementId)
               /\ EnterLoop(b, CountSettled(st), st.queue,
                            updateStatus(settlements, st.settlementId, "completed", result.txHash),
                            calls)
          ELSE /\ events' = events
               /\ EnterLoop(b, [st EXCEPT !.errors = @ + 1], st.queue,
                            updateStatus(settlements, st.settlementId, "failed", None),
                            calls)
  /\ UNCHANGED <<runs, registryVars, options, pureVars, proxyVars>>

\* Line 89 when the promise of distribute rejects: nothing catches it, so
\* runBatch rejects at the await and none of lines 91-106 run.
DistributeRejected(b) ==
  /\ batch[b].pc = "await"
  /\ batch' = [batch EXCEPT ![b] = [@ EXCEPT !.pc = "idle", !.queue = <<>>, !.threw = TRUE]]
  /\ answer' = LogOutcome(b, Rejection)
  /\ UNCHANGED <<events, settlements, calls, runs, registryVars, options, pureVars, proxyVars>>

\* usageStore.record called with a complete event, as the metering code and
\* the tests do.  The first API gets no charge, a negative, a zero, a small
\* and a payable one, the second API and an unregistered one a payable one.
ApiIds == {"api_001", "api_002", "api_unknown"}
Charges == {Num(-1), Num(0), Num(1), Num(MaxAmount), Undefined}
UsageInputs ==
  {in \in [apiId : ApiIds, amountUsdc : Charges] :
     in.apiId = "api_001" \/ in.amountUsdc = Num(MaxAmount)}

\* The userId the recorder puts on an event of that API: the developer the
\* charge is owed to.
UserOf(apiId) ==
  CASE apiId = "api_001" -> "dev_001"
    [] apiId = "api_002" -> "dev_002"
    [] OTHER -> "dev_old"

NewEvent(id, apiKey, apiId, statusCode, amountUsdc) ==
  [id |-> id, apiKey |-> apiKey, apiId |-> apiId, statusCode |-> statusCode,
   amountUsdc |-> amountUsdc, settlementId |-> None, userId |-> UserOf(apiId)]

RecordUsage ==
  /\ Len(events) < MaxEvents
  /\ \E in \in UsageInputs :
       events' = record(events, NewEvent("evt_" \o randomUUID(Len(events)), "k1",
                                         in.apiId, 200, in.amountUsdc))
  /\ UNCHANGED <<settlements, batch, calls, answer, runs, registryVars, options, pureVars, proxyVars>>

\* ------------------------------------------------------ billing ledger
Developers == {"dev_001", "dev_002"}

\* billing.deductCredit(developerId, amount): one atomic step that subtracts
\* when the balance covers the amount and otherwise changes nothing.
deductCredit(ledger, developerId, amount) ==
  IF developerId \in DOMAIN ledger /\ ledger[developerId] >= amount
  THEN [success |-> TRUE, balance |-> ledger[developerId] - amount,
        ledger |-> [ledger EXCEPT ![developerId] = @ - amount]]
  ELSE [success |-> FALSE,
        balance |-> IF developerId \in DOMAIN ledger THEN ledger[developerId] ELSE 0,
        ledger |-> ledger]

\* The balances the ledger is created with: any for the account the
\* credential of the requests bills, the largest for the other one.
InitialBalances ==
  {l \in [Developers -> 0..MaxBalance] : l["dev_002"] = MaxBalance}

\* -------------------------------------------------------- rate limiter
NoWindow == [active |-> FALSE, start |-> 0, count |-> 0]

\* The window of the credential has run out at time t (or the clock went back).
Elapsed(w, t) == ~w.active \/ t - w.start >= WindowMs \/ t < w.start

\* Mutant of checkAt: the fresh-window rule is applied before the capacity
\* is looked at.
checkAtFreshFirst(capacity, state, apiKey, t) ==
  LET w == state[apiKey] IN
  IF Elapsed(w, t)
  THEN [allowed |-> TRUE, retryAfterMs |-> 0,
        state |-> [state EXCEPT ![apiKey] = [active |-> TRUE, start |-> t, count |-> 1]]]
  ELSE IF w.count < capacity
  THEN [allowed |-> TRUE, retryAfterMs |-> 0,
        state |-> [state EXCEPT ![apiKey].count = @ + 1]]
  ELSE [allowed |-> FALSE, retryAfterMs |-> w.start + WindowMs - t, state |-> state]

\* check(apiKey) of a limiter created with that capacity: fixed-window
\* counting.
checkAt(capacity, state, apiKey, t) ==
  LET w == state[apiKey] IN
  IF capacity = 0
  THEN [allowed |-> FALSE, retryAfterMs |-> WindowMs, state |-> state]
  ELSE IF Elapsed(w, t)
  THEN [allowed |-> TRUE, retryAfterMs |-> 0,
        state |-> [state EXCEPT ![apiKey] = [active |-> TRUE, start |-> t, count |-> 1]]]
  ELSE IF w.count < capacity
  THEN [allowed |-> TRUE, retryAfterMs |-> 0,
        state |-> [state EXCEPT ![apiKey].count = @ + 1]]
  ELSE [allowed |-> FALSE, retryAfterMs |-> w.start + WindowMs - t, state |-> state]

\* rateLimiter.check(apiKey) of the limiter the proxy is given.
check(state, apiKey, t) == checkAt(Capacity, state, apiKey, t)

\* ---------------------------------------------------------- handleProxy
CREDIT_COST_PER_CALL == 1

\* The apiKeys map the server is started with.
apiKeys ==
  [k \in {"test-key-1", "test-key-2"} |->
     IF k = "test-key-1"
     THEN [key |-> k, developerId |-> "dev_001", apiId |-> "api_001"]
     ELSE [key |-> k, developerId |-> "dev_002", apiId |-> "api_002"]]

\* apiKeys.get(apiKeyHeader)
KeyRecord(apiKeyHeader) ==
  IF apiKeyHeader \in DOMAIN apiKeys THEN apiKeys[apiKeyHeader]
  ELSE [key |-> None, developerId |-> None, apiId |-> None]

\* Mutant of PreAdmission: the credential is validated before the API is
\* resolved.
PreAdmissionAuthFirst(apiEntry, apiKeyHeader, keyRecord) ==
  IF apiKeyHeader = None THEN 401
  ELSE IF keyRecord.key = None \/ keyRecord.apiId # apiEntry.id THEN 401
  ELSE IF ~Resolved(apiEntry) THEN 404
  ELSE 0

\* Lines 58-76: the status of the first stage that rejects the request before
\* admission control, or 0 when the request goes on to the rate limiter.
PreAdmission(apiEntry, apiKeyHeader, keyRecord) ==
  IF ~Resolved(apiEntry) THEN 404
  ELSE IF apiKeyHeader = None THEN 401
  ELSE IF keyRecord.key = None \/ keyRecord.apiId # apiEntry.id THEN 401
  ELSE 0

\* Mutant of PreAdmissionError: a credential bound to another API is told so.
PreAdmissionErrorScoped(apiEntry, apiKeyHeader, keyRecord) ==
  IF ~Resolved(apiEntry) THEN "Not Found: unknown API"
  ELSE IF apiKeyHeader = None THEN "Unauthorized: missing x-api-key header"
  ELSE IF keyRecord.key = None THEN "Unauthorized: invalid API key"
  ELSE IF keyRecord.apiId # apiEntry.id THEN "Unauthorized: API key of another API"
  ELSE None

\* Lines 61, 68, 74: the error of the JSON body of that response.
PreAdmissionError(apiEntry, apiKeyHeader, keyRecord) ==
  IF ~Resolved(apiEntry) THEN "Not Found: unknown API"
  ELSE IF apiKeyHeader = None THEN "Unauthorized: missing x-api-key header"
  ELSE IF keyRecord.key = None \/ keyRecord.apiId # apiEntry.id
       THEN "Unauthorized: invalid API key"
  ELSE None

\* Mutant of RetryAfterSec: the hint is rounded down.
RetryAfterSecFloor(retryAfterMs) ==
  LET ms == IF retryAfterMs.k = "num" THEN retryAfterMs.v ELSE 1000
  IN ms \div 1000

\* Line 81: Math.ceil((rateResult.retryAfterMs ?? 1000) / 1000)
RetryAfterSec(retryAfterMs) ==
  LET ms == IF retryAfterMs.k = "num" THEN retryAfterMs.v ELSE 1000
  IN -((-ms) \div 1000)

\* Mutant of RateDenied: the limiter's answer is ignored.
RateDeniedIgnored(rateResult) == FALSE

\* Line 80: !rateResult.allowed
RateDenied(rateResult) == ~rateResult.allowed

\* Mutant of BillingFailed: a failed deduction does not stop the request.
BillingFailedIgnored(billingResult) == FALSE

\* Line 96: !billingResult.success
BillingFailed(billingResult) == ~billingResult.success

\* Mutant of StatusToCaller: every upstream answer is passed on as 200.
StatusToCallerOk(upstreamStatus) == 200

\* Line 146: res.status(upstreamStatus)
StatusToCaller(upstreamStatus) == upstreamStatus

\* Lines 166, 170, 174: the error of the JSON body the catch block sends.
ErrorOnError(err) ==
  IF err = "TimeoutError" THEN "Gateway Timeout"
  ELSE IF err = "UND_ERR_CONNECT_TIMEOUT" THEN "Gateway Timeout"
  ELSE "Bad Gateway: upstream unreachable"

\* Lines 162-175: the status the catch block answers with.
StatusOnError(err) ==
  IF err = "TimeoutError" THEN 504
  ELSE IF err = "UND_ERR_CONNECT_TIMEOUT" THEN 504
  ELSE 502

FetchErrors == {"TimeoutError", "UND_ERR_CONNECT_TIMEOUT", "ECONNREFUSED"}
StreamErrors == {"TimeoutError", "terminated"}
UpstreamStatuses == {200, 500}

NewRequest ==
  [pc |-> "new", apiSlugOrId |-> None, apiKeyHeader |-> None,
   status |-> 0, headersSent |-> FALSE, upstreamStatus |-> 0,
   checked |-> FALSE, allowed |-> FALSE, window |-> 0,
   billingCalls |-> 0, billingOk |-> FALSE, deducted |-> 0, upstreamCalls |-> 0,
   failure |-> None,
   error |-> None,          \* response body: error
   bodyRequestId |-> None,  \* response body: requestId
   bodyBalance |-> -1,      \* response body: balance (-1: none)
   xRequestId |-> None,     \* response header x-request-id
   retryAfter |-> -1,       \* response header Retry-After (-1: none)
   upstreamAnswer |-> 0]    \* history: the status the upstream answered with

Requests == 1..MaxRequests

\* The requests callers send: an unknown API without a credential or with
\* an unknown one, a known API with no, an unknown, a foreign or its own
\* credential.
RequestInputs ==
  { [apiSlugOrId |-> "nope", apiKeyHeader |-> None],
    [apiSlugOrId |-> "nope", apiKeyHeader |-> "bad-key"],
    [apiSlugOrId |-> "api_001", apiKeyHeader |-> None],
    [apiSlugOrId |-> "api_001", apiKeyHeader |-> "bad-key"],
    [apiSlugOrId |-> "api_001", apiKeyHeader |-> "test-key-2"],
    [apiSlugOrId |-> "weather-api", apiKeyHeader |-> "test-key-1"] }

\* res.status(code).json(...): the response leaves with that status.
Respond(rq, code) == [rq EXCEPT !.pc = "done", !.status = code, !.headersSent = TRUE]

\* Line 56: the correlation id of the r-th request.
requestId(r) == "req_" \o randomUUID(r - 1)

\* res.status(code).json({ error, requestId }) of lines 61-102.
RespondJson(rq, r, code, error) ==
  [Respond(rq, code) EXCEPT !.error = error, !.bodyRequestId = requestId(r)]

\* res.set('x-request-id', requestId); res.status(code).json({ error,
\* requestId }) of the catch block, lines 162-175.
RespondGatewayError(rq, r, err) ==
  [RespondJson(rq, r, StatusOnError(err), ErrorOnError(err))
     EXCEPT !.xRequestId = requestId(r)]

\* Mutant of RecordProxied: the event is recorded as already settled.
RecordProxiedSettled(evs, r, rq, apiId) ==
  record(evs, [id |-> requestId(r), apiKey |-> rq.apiKeyHeader,
               apiId |-> apiId, statusCode |-> rq.upstreamStatus,
               amountUsdc |-> Undefined, settlementId |-> "stl_1",
               userId |-> None])

\* Lines 178-185: usageStore.record of the request's event.
RecordProxied(evs, r, rq, apiId) ==
  record(evs, [id |-> requestId(r), apiKey |-> rq.apiKeyHeader,
               apiId |-> apiId, statusCode |-> rq.upstreamStatus,
               amountUsdc |-> Undefined, settlementId |-> None,
               userId |-> None])

\* Lines 80-88: the response to a request the limiter denied.
RateLimitedReply(rq, r, rateResult) ==
  [RespondJson(rq, r, 429, "Too Many Requests")
     EXCEPT !.retryAfter = RetryAfterSec(rateResult.retryAfterMs)]

\* Lines 56-92: a request arrives and runs up to the await of deductCredit,
\* or to the response of the stage that rejects it.  t is the time the rate
\* limiter reads: the clock is read nowhere else and never goes back.
Arrive(r) ==
  /\ req[r].pc = "new"
  /\ \A q \in 1..(r - 1) : req[q].pc # "new"
  /\ \E in \in RequestInputs, t \in now..MaxTime :
       LET rq == [req[r] EXCEPT !.apiSlugOrId = in.apiSlugOrId,
                                !.apiKeyHeader = in.apiKeyHeader]
           apiEntry == resolve(in.apiSlugOrId)
           keyRecord == KeyRecord(in.apiKeyHeader)
           early == PreAdmission(apiEntry, in.apiKeyHeader, keyRecord)
       IN IF early # 0
          THEN /\ req' = [req EXCEPT ![r] =
                          RespondJson(rq, r, early,
                            PreAdmissionError(apiEntry, in.apiKeyHeader, keyRecord))]
               /\ windows' = windows
               /\ now' = now
          ELSE LET rateResult == check(windows, in.apiKeyHeader, t)
                   rq2 == [rq EXCEPT !.checked = TRUE, !.allowed = rateResult.allowed,
                                     !.window = rateResult.state[in.apiKeyHeader].start]
               IN /\ windows' = rateResult.state
                  /\ now' = t
                  /\ IF RateDenied(rateResult)
                     THEN req' = [req EXCEPT ![r] =
                            RateLimitedReply(rq2, r,
                              [rateResult EXCEPT !.retryAfterMs = Num(@)])]
                     ELSE req' = [req EXCEPT ![r] = [rq2 EXCEPT !.pc = "billing",
                                                               !.billingCalls = @ + 1]]
  /\ UNCHANGED <<events, balances, balance0, registryVars, options, pureVars, settleStores>>

\* Lines 92-132: deductCredit answers; the request gets 402, or is forwarded
\* and waits for the upstream.
BillingAnswered(r) ==
  /\ req[r].pc = "billing"
  /\ LET keyRecord == KeyRecord(req[r].apiKeyHeader)
         billingResult == deductCredit(balances, keyRecord.developerId, CREDIT_COST_PER_CALL)
         rq == [req[r] EXCEPT !.billingOk = billingResult.success,
                              !.deducted = balances[keyRecord.developerId]
                                            - billingResult.ledger[keyRecord.developerId]]
     IN /\ balances' = billingResult.ledger
        /\ IF BillingFailed(billingResult)
           THEN req' = [req EXCEPT ![r] =
                  [RespondJson(rq, r, 402, "Payment Required: insufficient balance")
                     EXCEPT !.bodyBalance = billingResult.balance]]
           ELSE req' = [req EXCEPT ![r] = [rq EXCEPT !.pc = "fetch", !.upstreamStatus = 502,
                                                   !.upstreamCalls = @ + 1]]
  /\ UNCHANGED <<events, balance0, windows, now, registryVars, options, pureVars, settleStores>>

\* Lines 127-146: the upstream answers with a status; with a body the
\* handler goes on to pump it, without one it sends the empty text.
UpstreamResponded(r) ==
  /\ req[r].pc = "fetch"
  /\ \E code \in UpstreamStatuses, hasBody \in BOOLEAN :
       LET rq == [req[r] EXCEPT !.upstreamStatus = code,
                                !.status = StatusToCaller(code),
                                !.xRequestId = requestId(r),
                                !.upstreamAnswer = code] IN
       IF hasBody
       THEN /\ req' = [req EXCEPT ![r] = [rq EXCEPT !.pc = "stream"]]
            /\ events' = events
       ELSE /\ req' = [req EXCEPT ![r] = Respond(rq, rq.status)]
            /\ events' = RecordProxied(events, r, rq, resolve(rq.apiSlugOrId).id)
  /\ UNCHANGED <<balances, balance0, windows, now, registryVars, options, pureVars, settleStores>>

\* Lines 127, 162-185: fetch rejects before any response; the catch block
\* answers 504 or 502 and the event is recorded.
UpstreamFailed(r) ==
  /\ req[r].pc = "fetch"
  /\ \E err \in FetchErrors :
       LET rq == [req[r] EXCEPT !.upstreamStatus = StatusOnError(err),
                                !.failure = err] IN
       /\ req' = [req EXCEPT ![r] = RespondGatewayError(rq, r, err)]
       /\ events' = RecordProxied(events, r, rq, resolve(rq.apiSlugOrId).id)
  /\ UNCHANGED <<balances, balance0, windows, now, registryVars, options, pureVars, settleStores>>

\* Lines 150-154: a chunk arrives and res.write sends it, and with the first
\* one the status line and headers.
StreamChunk(r) ==
  /\ req[r].pc = "stream"
  /\ ~req[r].headersSent
  /\ req' = [req EXCEPT ![r].headersSent = TRUE]
  /\ UNCHANGED <<events, balances, balance0, windows, now, registryVars, options, pureVars, settleStores>>

\* Lines 152, 155, 178-185: the body ends; res.end, then the event.
StreamEnd(r) ==
  /\ req[r].pc = "stream"
  /\ req' = [req EXCEPT ![r] = Respond(req[r], req[r].status)]
  /\ events' = RecordProxied(events, r, req[r], resolve(req[r].apiSlugOrId).id)
  /\ UNCHANGED <<balances, balance0, windows, now, registryVars, options, pureVars, settleStores>>

\* Lines 151, 162-185: reader.read rejects while the body is pumped.  Before
\* anything was written the catch block answers 504 or 502 and the event is
\* recorded; after a write res.set throws ERR_HTTP_HEADERS_SENT inside the
\* catch block, the handler's promise rejects and line 179 is never reached.
StreamFailed(r) ==
  /\ req[r].pc = "stream"
  /\ \E err \in StreamErrors :
       LET rq == [req[r] EXCEPT !.upstreamStatus = StatusOnError(err),
                                !.failure = err] IN
       IF req[r].headersSent
       THEN /\ req' = [req EXCEPT ![r] = [rq EXCEPT !.pc = "crashed"]]
            /\ events' = events
       ELSE /\ req' = [req EXCEPT ![r] = RespondGatewayError(rq, r, err)]
            /\ events' = RecordProxied(events, r, rq, resolve(rq.apiSlugOrId).id)
  /\ UNCHANGED <<balances, balance0, windows, now, registryVars, options, pureVars, settleStores>>

\* ------------------------------------------ handleProxy, step by step
\* Lines 7-19
DEFAULT_STRIP_HEADERS ==
  << "host", "x-api-key", "connection", "keep-alive", "transfer-encoding", "te",
     "trailer", "upgrade", "proxy-authorization", "proxy-connection" >>

\* String.prototype.toLowerCase on header names.
toLowerCase(name) ==
  CASE name = "Host" -> "host"
    [] name = "X-Api-Key" -> "x-api-key"
    [] name = "X-Request-Id" -> "x-request-id"
    [] OTHER -> name

\* req.headers as the HTTP parser hands it over: lower-case names, each
\* absent, a string, or (set-cookie only) an array of strings.
InboundNames == {"host", "x-api-key", "connection", "accept", "x-request-id", "set-cookie"}
Absent == "absent"
ArrayValue == "array"
HeaderInputs ==
  {h \in [InboundNames -> {Absent, "from-caller", ArrayValue}] :
     \A n \in InboundNames : h[n] = ArrayValue => n = "set-cookie"}

\* Mutant of ForwardHeaders: the strip-list is not applied.
ForwardHeadersUnstripped(headers, stripHeaders, id) ==
  [n \in DOMAIN headers \cup {"x-request-id"} |->
     IF n = "x-request-id" THEN id
     ELSE IF headers[n] \notin {Absent, ArrayValue} THEN headers[n] ELSE Absent]

\* Lines 112-121: the header set sent upstream.
ForwardHeaders(headers, stripHeaders, id) ==
  LET stripSet == {toLowerCase(stripHeaders[i]) : i \in DOMAIN stripHeaders}
      copied == [n \in DOMAIN headers \cup {"x-request-id"} |->
                   IF /\ n \in DOMAIN headers
                      /\ toLowerCase(n) \notin stripSet
                      /\ headers[n] \notin {Absent, ArrayValue}
                   THEN headers[n] ELSE Absent]
  IN [copied EXCEPT !["x-request-id"] = id]

NoHeaders == [n \in InboundNames |-> Absent]
IdleFwd == [pc |-> "new", headers |-> NoHeaders, forwardHeaders |-> NoHeaders]

\* Lines 112-121 for the first request, with the strip-list every caller of
\* createProxyRouter in the repository leaves at its default.
BuildForwardHeaders ==
  /\ fwd.pc = "new"
  /\ fwd' = [fwd EXCEPT !.pc = "built",
                        !.forwardHeaders =
                          ForwardHeaders(fwd.headers, DEFAULT_STRIP_HEADERS, requestId(1))]
  /\ UNCHANGED <<registryVars, options, settleVars, proxyVars, probe, limiter, keyStore, page, summary>>

\* What a RateLimiter may answer: allowed or not, with a hint in
\* milliseconds or without one (retryAfterMs is optional).
Hints == {Undefined, Num(0), Num(1), Num(999), Num(1000), Num(1001), Num(2000)}
LimiterAnswers == [allowed : BOOLEAN, retryAfterMs : Hints]

IdleProbe ==
  [rateResult |-> [allowed |-> TRUE, retryAfterMs |-> Undefined],
   rq |-> [NewRequest EXCEPT !.apiSlugOrId = "weather-api",
                             !.apiKeyHeader = "test-key-1"]]

\* Lines 79-92 for a request that passed key validation, with the answer
\* the limiter gave it.
AdmissionControl ==
  /\ probe.rq.pc = "new"
  /\ LET rq == [probe.rq EXCEPT !.checked = TRUE, !.allowed = probe.rateResult.allowed]
     IN IF RateDenied(probe.rateResult)
        THEN probe' = [probe EXCEPT !.rq = RateLimitedReply(rq, 1, probe.rateResult)]
        ELSE probe' = [probe EXCEPT !.rq = [rq EXCEPT !.pc = "billing",
                                                     !.billingCalls = @ + 1]]
  /\ UNCHANGED <<registryVars, options, settleVars, proxyVars, fwd, limiter, keyStore, page, summary>>

\* ------------------------------------------- a limiter of any capacity
MaxChecks == 3          \* checks made on the limiter in one behaviour

IdleLimiter ==
  [capacity |-> Capacity, state |-> [k \in DOMAIN apiKeys |-> NoWindow],
   now |-> 0, log |-> <<>>]

\* rateLimiter.check(apiKey) at time t, on a limiter of limiter.capacity.
CheckLimiter ==
  /\ Len(limiter.log) < MaxChecks
  /\ \E apiKey \in DOMAIN apiKeys, t \in limiter.now..MaxTime :
       LET rateResult == checkAt(limiter.capacity, limiter.state, apiKey, t) IN
       limiter' = [limiter EXCEPT !.state = rateResult.state, !.now = t,
                     !.log = Append(@, [apiKey |-> apiKey, t |-> t,
                                        allowed |-> rateResult.allowed])]
  /\ UNCHANGED <<registryVars, options, settleVars, proxyVars, fwd, probe, keyStore, page, summary>>

\* ------------------------------------------------------ apiKeyRepository
MaxKeys == 3            \* keys created in one behaviour
MaxRevokes == 3         \* revoke calls in one behaviour
Users == {"user-1", "user-2"}

\* randomBytes(8).toString('hex') of the n-th created key.
keyId(n) == "key_" \o randomUUID(n - 1)

\* apiKeys.findIndex(k => k.id === id); 0 stands for -1.
findIndex(keys, id) ==
  IF \E i \in DOMAIN keys : keys[i].id = id
  THEN CHOOSE i \in DOMAIN keys :
         keys[i].id = id /\ \A l \in 1..(i - 1) : keys[l].id # id
  ELSE 0

\* apiKeys.splice(index, 1)
splice(keys, index) ==
  [i \in 1..(Len(keys) - 1) |-> IF i < index THEN keys[i] ELSE keys[i + 1]]

\* Mutant of revoke: the owner of the key is not compared.
revokeAnyOwner(keys, id, userId) ==
  LET index == findIndex(keys, id) IN
  IF index = 0 THEN [result |-> "not_found", keys |-> keys]
  ELSE [result |-> "success", keys |-> splice(keys, index)]

\* apiKeyRepository.revoke(id, userId)
revoke(keys, id, userId) ==
  LET index == findIndex(keys, id) IN
  IF index = 0 THEN [result |-> "not_found", keys |-> keys]
  ELSE IF keys[index].userId # userId THEN [result |-> "forbidden", keys |-> keys]
  ELSE [result |-> "success", keys |-> splice(keys, index)]

IdleKeyStore == [apiKeys |-> <<>>, created |-> 0, log |-> <<>>]

\* apiKeyRepository.create({ apiId, userId, ... })
CreateKey ==
  /\ keyStore.created < MaxKeys
  /\ \E userId \in Users :
       keyStore' = [keyStore EXCEPT
                      !.created = @ + 1,
                      !.apiKeys = Append(@, [id |-> keyId(keyStore.created + 1),
                                             apiId |-> "api-1", userId |-> userId])]
  /\ UNCHANGED <<registryVars, options, settleVars, proxyVars, fwd, probe, limiter, page, summary>>

\* The ids callers pass to revoke: the id of any key ever created, or one
\* that no key has.
RevokeIds == {keyId(n) : n \in 1..MaxKeys} \cup {"non-existent-id"}

\* apiKeyRepository.revoke(id, userId), as DELETE /api/keys/:id calls it.
RevokeKey ==
  /\ Len(keyStore.log) < MaxRevokes
  /\ \E id \in RevokeIds, userId \in Users :
       LET r == revoke(keyStore.apiKeys, id, userId) IN
       keyStore' = [keyStore EXCEPT
                      !.apiKeys = r.keys,
                      !.log = Append(@, [id |-> id, userId |-> userId,
                                         result |-> r.result])]
  /\ UNCHANGED <<registryVars, options, settleVars, proxyVars, fwd, probe, limiter, page, summary>>

\* ------------------------------------------ GET /api/developers/revenue
MaxQueryLen == 3        \* characters of a query-string value
MaxSettlements == 3     \* settlements in the store a page is read from
MaxQueries == 3         \* revenue queries served in one behaviour
MaxFailures == 1        \* failed payouts before the client succeeds for good

\* The characters of a query-string value, and the values themselves: a
\* string, or no value when the parameter is absent.
QueryChars == {"-", "0", "1", "2", "a"}
Digits == {"0", "1", "2"}
QueryStrings(maxLen) == UNION {[1..n -> QueryChars] : n \in 0..maxLen}
Missing == [present |-> FALSE, text |-> <<>>]
QueryValues(maxLen) ==
  {Missing} \cup {[present |-> TRUE, text |-> t] : t \in QueryStrings(maxLen)}

DigitValue(c) == CASE c = "0" -> 0 [] c = "1" -> 1 [] c = "2" -> 2

\* The value of the longest prefix of digits of str, after the digits read
\* so far (value, count).
RECURSIVE LeadingDigits(_, _)
LeadingDigits(str, acc) ==
  IF str = <<>> \/ Head(str) \notin Digits THEN acc
  ELSE LeadingDigits(Tail(str), [value |-> 10 * acc.value + DigitValue(Head(str)),
                                 count |-> acc.count + 1])

\* parseInt(string, 10): an optional sign, then the longest prefix of digits;
\* NaN when there is none (String(undefined) has none).
parseInt(string) ==
  IF ~string.present THEN NaN
  ELSE LET negative == string.text # <<>> /\ Head(string.text) = "-"
           z == LeadingDigits(IF negative THEN Tail(string.text) ELSE string.text,
                              [value |-> 0, count |-> 0])
       IN IF z.count = 0 THEN NaN
          ELSE Num(IF negative THEN -z.value ELSE z.value)

DEFAULT_LIMIT == 20
MAX_LIMIT == 100

\* Mutant of EffectiveLimit: the limit is not capped.
EffectiveLimitUncapped(raw) ==
  LET limit == parseInt(raw)
  IN IF limit.k = "nan" \/ JsLt(limit, Num(1)) THEN DEFAULT_LIMIT ELSE limit.v

\* Lines 24-26: the limit parsed and clamped.
EffectiveLimit(raw) ==
  LET limit == parseInt(raw)
      limit1 == IF limit.k = "nan" \/ JsLt(limit, Num(1)) THEN DEFAULT_LIMIT ELSE limit.v
  IN IF limit1 > MAX_LIMIT THEN MAX_LIMIT ELSE limit1

\* Lines 28-29: the offset parsed and clamped.
EffectiveOffset(raw) ==
  LET offset == parseInt(raw)
  IN IF offset.k = "nan" \/ JsLt(offset, Num(0)) THEN 0 ELSE offset.v

\* Array.prototype.slice(start, end) for 0 <= start <= end.
slice(array, start, end) ==
  SubSeq(array, start + 1, IF end < Len(array) THEN end ELSE Len(array))

RECURSIVE Reverse(_)
Reverse(array) ==
  IF array = <<>> THEN <<>> ELSE Append(Reverse(Tail(array)), Head(array))

\* InMemorySettlementStore.getDeveloperSettlements: the developer's records,
\* newest first.  created_at is new Date() at creation, so the records of
\* the store are in the order of their created_at.
getDeveloperSettlements(store, developerId) ==
  Reverse(SelectSeq(store, LAMBDA s : s.developerId = developerId))

\* .filter((s) => s.status === status).reduce((sum, s) => sum + s.amount, 0)
RECURSIVE StatusTotal(_, _, _)
StatusTotal(all, status, sum) ==
  IF all = <<>> THEN sum
  ELSE StatusTotal(Tail(all), status,
                   IF Head(all).status = status THEN JsAdd(sum, Head(all).amount) ELSE sum)

\* Lines 46-47: the charges of the developer's unsettled events.
RECURSIVE UnsettledRevenue(_, _, _)
UnsettledRevenue(unsettled, developerId, sum) ==
  IF unsettled = <<>> THEN sum
  ELSE UnsettledRevenue(Tail(unsettled), developerId,
                        IF Head(unsettled).userId = developerId
                        THEN JsAdd(sum, Head(unsettled).amountUsdc) ELSE sum)

\* Line 49: completedTotal + unsettledRevenue + pendingTotal
TotalEarned(completedTotal, unsettledRevenue, pendingTotal) ==
  JsAdd(JsAdd(completedTotal, unsettledRevenue), pendingTotal)

NoQuery == [limit |-> Missing, offset |-> Missing]
IdlePage ==
  [pc |-> "new", developerId |-> "dev_001", query |-> NoQuery,
   limit |-> 0, offset |-> 0, total |-> 0, settlements |-> <<>>]

\* Lines 21-61: the handler of GET /revenue for an authenticated developer.
GetRevenue(developerId, query) ==
  LET limit == EffectiveLimit(query.limit)
      offset == EffectiveOffset(query.offset)
      allSettlements == getDeveloperSettlements(settlements, developerId)
      completedTotal == StatusTotal(allSettlements, "completed", Num(0))
      pendingTotal == StatusTotal(allSettlements, "pending", Num(0))
      unsettledRevenue == UnsettledRevenue(getUnsettledEvents, developerId, Num(0))
  IN /\ page' = [pc |-> "done", developerId |-> developerId, query |-> query,
                 limit |-> limit, offset |-> offset, total |-> Len(allSettlements),
                 settlements |-> slice(allSettlements, offset, offset + limit)]
     /\ summary' = Append(summary,
                      [developerId |-> developerId,
                       total_earned |-> TotalEarned(completedTotal, unsettledRevenue,
                                                    pendingTotal),
                       pending |-> pendingTotal,
                       available_to_withdraw |-> unsettledRevenue])
     /\ UNCHANGED <<registryVars, options, settleVars, proxyVars, fwd, probe, limiter, keyStore>>

\* The query whose parameters the behaviour started with.
GetRevenuePage == page.pc = "new" /\ GetRevenue(page.developerId, page.query)

\* The query without parameters, for any developer, at any moment.
GetRevenueSummary ==
  /\ Len(summary) < MaxQueries
  /\ \E developerId \in Developers : GetRevenue(developerId, NoQuery)

\* settlementStore.create of a completed settlement of any developer, as
\* seedData of the route's tests does before the query is served.
SeedSettlement ==
  /\ page.pc = "new"
  /\ Len(settlements) < MaxSettlements
  /\ \E developerId \in Developers :
       settlements' = create(settlements,
                        [id |-> "stl_" \o randomUUID(Len(settlements)),
                         developerId |-> developerId, amount |-> Num(MinPayoutUsdc),
                         status |-> "completed", tx_hash |-> "0xmocktx"])
  /\ UNCHANGED <<registryVars, options, events, batch, calls, answer, runs, proxyVars, pureVars>>

\* ---------------------------------------------------------------- specs
vars == <<registryVars, settleVars, proxyVars, pureVars, options>>

InitProgram ==
  /\ byId = RegisterAll(SEED_ENTRIES, [id |-> EmptyMap, slug |-> EmptyMap]).id
  /\ bySlug = RegisterAll(SEED_ENTRIES, [id |-> EmptyMap, slug |-> EmptyMap]).slug
  /\ events = <<>>
  /\ settlements = <<>>
  /\ batch = [b \in Runners |-> IdleBatch]
  /\ calls = <<>>
  /\ answer = [settlementId |-> None, outcome |-> Rejection]
  /\ runs = 0
  /\ req = [r \in Requests |-> NewRequest]
  /\ balances \in InitialBalances
  /\ balance0 = balances
  /\ windows = [k \in DOMAIN apiKeys |-> NoWindow]
  /\ now = 0
  /\ registered = {SEED_ENTRIES[i] : i \in DOMAIN SEED_ENTRIES}

\* The options of the service the claims about payouts and caps speak of.
DefaultOptions ==
  [minPayoutUsdc |-> MinPayoutUsdc, maxEventsPerBatch |-> MaxEventsPerBatch]

\* No side request is under way.
InitIdle ==
  /\ fwd = IdleFwd /\ probe = IdleProbe /\ limiter = IdleLimiter
  /\ keyStore = IdleKeyStore /\ page = IdlePage /\ summary = <<>>

Init == InitProgram /\ InitIdle /\ options = DefaultOptions

\* The settlement batcher alone: the ledger plays no part in it.
InitSettle == Init /\ balances = [d \in Developers |-> MaxBalance]

NoBatchInFlight == \A b \in Runners : batch[b].pc = "idle"

\* runBatch is called while no run is in flight.
StartSingleBatch == NoBatchInFlight /\ StartBatch(1)

\* The settlement batcher driven by a caller that keeps a single batch in
\* flight (the single-flight guard the service leaves to its caller).
SettleNext ==
  \/ RecordUsage
  \/ StartSingleBatch
  \/ DistributeResolved(1)
  \/ DistributeRejected(1)
  \/ RegisterApi

SpecSettle == InitSettle /\ [][SettleNext]_vars

\* The proxy pipeline under concurrent requests.
ProxyNext ==
  \/ \E r \in Requests : Arrive(r)
  \/ \E r \in Requests : BillingAnswered(r)
  \/ \E r \in Requests : UpstreamResponded(r)
  \/ \E r \in Requests : UpstreamFailed(r)
  \/ \E r \in Requests : StreamChunk(r)
  \/ \E r \in Requests : StreamEnd(r)
  \/ \E r \in Requests : StreamFailed(r)

SpecProxy == Init /\ [][ProxyNext]_vars

\* The settlement batcher called without a single-flight guard: two tasks
\* call runBatch whenever they like.
OverlapNext ==
  \/ RecordUsage
  \/ \E b \in Runners : StartBatch(b)
  \/ \E b \in Runners : DistributeResolved(b)
  \/ \E b \in Runners : DistributeRejected(b)

SpecOverlap == InitSettle /\ [][OverlapNext]_vars

\* usageStore.record called directly while the store holds less than two
\* events.
RecordEarlyUsage == Len(events) < 2 /\ RecordUsage

\* The batcher and the proxy side by side: usage recorded directly or by one
\* proxied request, settled by non-overlapping runs.
FrameNext ==
  \/ RecordEarlyUsage
  \/ StartSingleBatch
  \/ DistributeResolved(1)
  \/ DistributeRejected(1)
  \/ Arrive(1)
  \/ BillingAnswered(1)
  \/ UpstreamResponded(1)
  \/ UpstreamFailed(1)
  \/ StreamChunk(1)
  \/ StreamEnd(1)
  \/ StreamFailed(1)

SpecFrame == InitSettle /\ [][FrameNext]_vars

\* One request's header set and one request's admission control, for any
\* inbound headers and any answer of the limiter.
InitPure ==
  /\ InitProgram
  /\ balances = [d \in Developers |-> MaxBalance]
  /\ options = DefaultOptions
  /\ fwd \in {[IdleFwd EXCEPT !.headers = h] : h \in HeaderInputs}
  /\ probe \in {[IdleProbe EXCEPT !.rateResult = a] : a \in LimiterAnswers}
  /\ limiter = IdleLimiter /\ keyStore = IdleKeyStore /\ page = IdlePage
  /\ summary = <<>>

PureNext == BuildForwardHeaders \/ AdmissionControl

SpecPure == InitPure /\ [][PureNext]_vars

\* The registry under any sequence of register calls.
RegistryNext == \E entry \in EntryInputs : Register(entry)

SpecRegistry == InitSettle /\ [][RegistryNext]_vars

\* A limiter created with any capacity up to Capacity, checked at any times.
InitLimiter ==
  /\ InitProgram /\ balances = [d \in Developers |-> MaxBalance]
  /\ options = DefaultOptions
  /\ fwd = IdleFwd /\ probe = IdleProbe /\ keyStore = IdleKeyStore
  /\ page = IdlePage /\ summary = <<>>
  /\ limiter \in {[IdleLimiter EXCEPT !.capacity = c] : c \in 0..Capacity}

LimiterNext == CheckLimiter

SpecLimiter == InitLimiter /\ [][LimiterNext]_vars

\* The key repository under any sequence of create and revoke calls.
KeysNext == CreateKey \/ RevokeKey

SpecKeys == InitSettle /\ [][KeysNext]_vars

\* A scheduler that calls runBatch again and again, each call after the one
\* before has ended; the invocations are numbered 1..MaxRuns in turn.
RepeatBatch ==
  /\ NoBatchInFlight
  /\ runs' = (runs % MaxRuns) + 1
  /\ BeginBatch(1, (runs % MaxRuns) + 1)

\* Usage is recorded before the scheduler starts, none after.
RecordBeforeRuns == runs = 0 /\ RecordUsage

\* The settlement client answers success with a transaction hash.
ClientSucceeds == DistributeResolved(1) /\ PayoutSucceeded(answer'.outcome)

\* The payouts that did not complete, the one in flight not counted.
PastFailures ==
  Cardinality({i \in DOMAIN settlements : settlements[i].status # "completed"}) - 1

\* The settlement client fails, which it does MaxFailures times at most
\* before it succeeds for good.
ClientFails ==
  /\ PastFailures < MaxFailures
  /\ \/ DistributeResolved(1) /\ ~PayoutSucceeded(answer'.outcome)
     \/ DistributeRejected(1)

InitLive ==
  /\ InitProgram /\ InitIdle
  /\ balances = [d \in Developers |-> MaxBalance]
  /\ options \in ServiceOptions

LiveNext == RecordBeforeRuns \/ RepeatBatch \/ ClientSucceeds \/ ClientFails

\* WF_vars(RepeatBatch) written out: RepeatBatch can be taken exactly when no
\* batch is in flight, and it is the one action of LiveNext that changes runs.
FairScheduler == []<>(~NoBatchInFlight) \/ []<><<runs' # runs>>_runs

\* runBatch is called again whenever it can be, and the client answers.
SpecLive ==
  /\ InitLive /\ [][LiveNext]_vars
  /\ FairScheduler /\ WF_vars(ClientSucceeds)

\* One paginated query, for any parameters and any store.
InitPage ==
  /\ InitProgram /\ balances = [d \in Developers |-> MaxBalance]
  /\ options = DefaultOptions
  /\ fwd = IdleFwd /\ probe = IdleProbe /\ limiter = IdleLimiter
  /\ keyStore = IdleKeyStore /\ summary = <<>>
  /\ page \in {[IdlePage EXCEPT !.query = [limit |-> l, offset |-> o]] :
                 l \in QueryValues(MaxQueryLen),
                 o \in QueryValues(MaxQueryLen - 1)}

PageNext == SeedSettlement \/ GetRevenuePage

SpecPage == InitPage /\ [][PageNext]_vars

\* The revenue summary served at any moment of the batcher's work, between
\* runs or while a run awaits the settlement client.
RevenueNext ==
  \/ RecordEarlyUsage
  \/ StartSingleBatch
  \/ DistributeResolved(1)
  \/ DistributeRejected(1)
  \/ GetRevenueSummary

SpecRevenue == InitSettle /\ [][RevenueNext]_vars

Next ==
  \/ OverlapNext \/ RegisterApi \/ ProxyNext \/ PureNext \/ RegistryNext
  \/ LimiterNext \/ KeysNext \/ PageNext \/ GetRevenueSummary

Spec == Init /\ [][Next]_vars
\* --------------------------------------------------------- the claims
StatusIn(store, id) ==
  LET i == CHOOSE k \in DOMAIN store : store[k].id = id IN store[i].status
TxHashIn(store, id) ==
  LET i == CHOOSE k \in DOMAIN store : store[k].id = id IN store[i].tx_hash
SettlementIdIn(evs, eventId) ==
  LET i == CHOOSE k \in DOMAIN evs : evs[k].id = eventId IN evs[i].settlementId
Members(call) == {call.eventIds[j] : j \in DOMAIN call.eventIds}
Completed(call) == StatusIn(settlements, call.settlementId) = "completed"

C1_State ==
  /\ \A i, j \in DOMAIN calls :
       i # j /\ Completed(calls[i]) /\ Completed(calls[j])
         => Members(calls[i]) \cap Members(calls[j]) = {}
  /\ \A k \in DOMAIN events :
       events[k].settlementId # None
         => Cardinality({i \in DOMAIN settlements :
                           settlements[i].id = events[k].settlementId}) = 1
C1_Step ==
  \A k \in DOMAIN events :
    events[k].settlementId # None => events'[k].settlementId = events[k].settlementId

\* C1: over non-overlapping batch runs, with any client outcomes and usage
\* recorded in between, no event belongs to two completed settlements; a
\* settled event carries the id of exactly one settlement, and a settlement
\* id, once set on an event, is never changed or cleared.
C1_NoDoublePayout == []C1_State /\ [][C1_Step]_vars

\* An event carries the id of a completed settlement after a run has failed
\* and a later run has settled.
C1_Witness ==
  /\ runs >= 2
  /\ \E i \in DOMAIN settlements : settlements[i].status = "failed"
  /\ \E k \in DOMAIN events :
       /\ events[k].settlementId # None
       /\ StatusIn(settlements, events[k].settlementId) = "completed"

\* C2: at the moment the client call of a group is answered: when it failed
\* (failure result or rejection) the settlement is 'failed' and every event of
\* the group is still unsettled; when it succeeded the settlement is
\* 'completed' and every event of the group carries that settlement's id.
C2_GroupOutcome ==
  [][\A i \in DOMAIN calls :
       answer' # answer /\ answer'.settlementId = calls[i].settlementId =>
         LET c == calls[i] IN
         IF answer'.outcome.rejected \/ ~answer'.outcome.success
         THEN /\ StatusIn(settlements', c.settlementId) = "failed"
              /\ \A e \in Members(c) : SettlementIdIn(events', e) = None
         ELSE /\ StatusIn(settlements', c.settlementId) = "completed"
              /\ \A e \in Members(c) : SettlementIdIn(events', e) = c.settlementId]_vars

\* C3: a later run (in particular the next one, with no usage recorded in
\* between) creates no settlement, and makes no client call, for any event of
\* a settlement that an earlier run completed.
C3_BatchIdempotence ==
  \A i, j \in DOMAIN calls :
    calls[i].run < calls[j].run /\ Completed(calls[i])
      => Members(calls[i]) \cap Members(calls[j]) = {}

\* The first run settled every event there is, and a second run has returned
\* with nothing recorded in between.
C3_Witness ==
  /\ runs = 2
  /\ batch[1].pc = "idle" /\ batch[1].run = 2 /\ batch[1].returned
  /\ \E i \in DOMAIN calls :
       /\ calls[i].run = 1 /\ Completed(calls[i])
       /\ Len(calls[i].eventIds) = Len(events)

\* C4: when a run has ended, every owner group of it that met the payout
\* threshold got its settlement record and its client call in that run,
\* whatever happened to the calls of the other groups.
C4_FailureDoesNotAbort ==
  \A b \in Runners :
    batch[b].pc = "idle" /\ batch[b].run > 0 =>
      \A g \in DOMAIN batch[b].groups :
        ~BelowMinPayout(totalAmount(batch[b].groups[g])) =>
          \E i \in DOMAIN calls :
            /\ calls[i].run = batch[b].run
            /\ calls[i].developerId = batch[b].groups[g].developerId

C5_State ==
  \A i \in DOMAIN settlements :
    /\ settlements[i].status = "pending" =>
         \E b \in Runners : batch[b].pc = "await" /\ batch[b].settlementId = settlements[i].id
    /\ settlements[i].status = "completed" => settlements[i].tx_hash # None
C5_Step ==
  /\ \A i \in DOMAIN settlements' \ DOMAIN settlements :
       settlements'[i].status = "pending" /\ settlements'[i].tx_hash = None
  /\ \A i \in DOMAIN settlements :
       settlements[i].status \in {"completed", "failed"} =>
         settlements'[i].status = settlements[i].status
  /\ \A i \in DOMAIN settlements :
       settlements[i].status = "pending" /\ settlements'[i].status = "completed" =>
         /\ answer'.settlementId = settlements[i].id
         /\ settlements'[i].tx_hash = answer'.outcome.txHash

\* C5: a settlement record is created 'pending' with no tx hash; it is
\* pending only while the run that created it awaits its client call, so
\* none is pending once the run has ended, whatever the client did; a
\* completed one carries the returned reference; a completed or failed one
\* never changes status.
C5_Lifecycle == []C5_State /\ [][C5_Step]_vars

\* The usage events recorded for the r-th request.
RecordedFor(r) == {k \in DOMAIN events : events[k].id = requestId(r)}
Finished(r) == req[r].pc \in {"done", "crashed"}

\* C6: a request that was forwarded and has finished has exactly one usage
\* event, and the event's statusCode is the status the caller got.
C6_OneEventPerForward ==
  \A r \in Requests :
    Finished(r) /\ req[r].upstreamCalls > 0 =>
      /\ Cardinality(RecordedFor(r)) = 1
      /\ \A k \in RecordedFor(r) : events[k].statusCode = req[r].status

KeyRejected(r) ==
  LET apiEntry == resolve(req[r].apiSlugOrId)
      keyRecord == KeyRecord(req[r].apiKeyHeader)
  IN /\ Resolved(apiEntry)
     /\ \/ req[r].apiKeyHeader = None
        \/ req[r].apiKeyHeader \notin DOMAIN apiKeys
        \/ keyRecord.apiId # apiEntry.id

\* C7: a finished request that the registry did not resolve, whose
\* credential was rejected, that the rate limiter denied or whose deduction
\* failed made no upstream call and has no usage event; in the first three
\* cases nothing was deducted for it and billing was not called.
C7_ShortCircuitIsFree ==
  \A r \in Requests :
    Finished(r) =>
      /\ ( \/ ~Resolved(resolve(req[r].apiSlugOrId))
           \/ KeyRejected(r)
           \/ req[r].checked /\ ~req[r].allowed
           \/ req[r].billingCalls > 0 /\ ~req[r].billingOk )
         => req[r].upstreamCalls = 0 /\ RecordedFor(r) = {}
      /\ ( \/ ~Resolved(resolve(req[r].apiSlugOrId))
           \/ KeyRejected(r)
           \/ req[r].checked /\ ~req[r].allowed )
         => req[r].deducted = 0 /\ req[r].billingCalls = 0

\* One request has ended at admission control and one at billing.
C7_Witness ==
  /\ \E r \in Requests : req[r].pc = "done" /\ req[r].status = 429
  /\ \E r \in Requests : req[r].pc = "done" /\ req[r].status = 402

\* C8: the first failing stage decides: an unresolved API gives 404 whatever
\* the credential; a rejected credential gives 401 and neither the limiter nor
\* billing is consulted; a limiter denial gives 429 and billing is not
\* called; billing is called only for requests the limiter allowed.
C8_PipelineOrder ==
  \A r \in Requests :
    /\ Finished(r) /\ ~Resolved(resolve(req[r].apiSlugOrId)) =>
         req[r].status = 404 /\ ~req[r].checked /\ req[r].billingCalls = 0
    /\ Finished(r) /\ KeyRejected(r) =>
         req[r].status = 401 /\ ~req[r].checked /\ req[r].billingCalls = 0
    /\ Finished(r) /\ req[r].checked /\ ~req[r].allowed =>
         req[r].status = 429 /\ req[r].billingCalls = 0
    /\ req[r].billingCalls > 0 => req[r].checked /\ req[r].allowed

\* A request was rate-limited while its account could not have paid.
C8_Witness ==
  /\ \E r \in Requests :
       /\ req[r].pc = "done" /\ req[r].status = 429
       /\ balances[KeyRecord(req[r].apiKeyHeader).developerId] < CREDIT_COST_PER_CALL

\* The requests that passed billing on the account of developer d.
PassedBilling(d) ==
  {r \in Requests : req[r].upstreamCalls > 0
                    /\ KeyRecord(req[r].apiKeyHeader).developerId = d}

\* C9: no balance is negative; the requests that pass billing on an account
\* are covered by its initial balance, so at most one passes when the balance
\* is exactly one call's cost; a request answered 402 was not forwarded and
\* deducted nothing.
C9_DeductionsSerialize ==
  /\ \A d \in Developers :
       /\ balances[d] >= 0
       /\ CREDIT_COST_PER_CALL * Cardinality(PassedBilling(d)) <= balance0[d]
       /\ balance0[d] = CREDIT_COST_PER_CALL => Cardinality(PassedBilling(d)) <= 1
  /\ \A r \in Requests :
       req[r].billingCalls > 0 /\ ~req[r].billingOk /\ Finished(r) =>
         req[r].status = 402 /\ req[r].deducted = 0 /\ req[r].upstreamCalls = 0

\* With a balance of exactly one call's cost, one request is in flight to
\* the upstream while another one, admitted alongside it, got 402.
C9_Witness ==
  \E d \in Developers :
    /\ balance0[d] = CREDIT_COST_PER_CALL
    /\ \E r1, r2 \in Requests :
         /\ r1 > r2
         /\ req[r1].pc = "fetch"
         /\ KeyRecord(req[r1].apiKeyHeader).developerId = d
         /\ req[r2].pc = "done" /\ req[r2].status = 402
         /\ KeyRecord(req[r2].apiKeyHeader).developerId = d

\* The requests with credential k that the limiter admitted in, or that went
\* on to billing from, the window that started at w.
AdmittedIn(k, w) ==
  {r \in Requests : req[r].checked /\ req[r].allowed
                    /\ req[r].apiKeyHeader = k /\ req[r].window = w}
BilledFrom(k, w) ==
  {r \in Requests : req[r].billingCalls > 0
                    /\ req[r].apiKeyHeader = k /\ req[r].window = w}

\* C10: per credential and window, the requests admitted, and the requests
\* that reach billing, never exceed the capacity; the limiter's count is the
\* number admitted in the current window only, so a new window starts at 1.
C10_WindowCapacity ==
  \A k \in DOMAIN apiKeys :
    /\ windows[k].count <= Capacity
    /\ windows[k].active => windows[k].count = Cardinality(AdmittedIn(k, windows[k].start))
    /\ \A w \in 0..MaxTime :
         /\ Cardinality(AdmittedIn(k, w)) <= Capacity
         /\ Cardinality(BilledFrom(k, w)) <= Capacity

\* A credential used up its window and a further request got 429.
C10_Witness ==
  \E k \in DOMAIN apiKeys :
    /\ windows[k].count = Capacity
    /\ \E r \in Requests :
         /\ req[r].apiKeyHeader = k /\ req[r].checked /\ ~req[r].allowed
         /\ req[r].status = 429

\* C11: the usage event recorded for a forwarded request carries, as its
\* charge, the amount billing deducted for that request.
C11_EventCarriesCharge ==
  \A r \in Requests :
    req[r].upstreamCalls > 0 =>
      \A k \in RecordedFor(r) : events[k].amountUsdc = Num(req[r].deducted)

Arrived(r) == req[r].pc # "new"
EventsOf(apiKey) == {k \in DOMAIN events : events[k].apiKey = apiKey}

\* C12: once every request that arrived has finished, each account has lost
\* the per-call cost times the number of usage events recorded for the
\* credential bound to it, and nothing else.
C12_BillingAccounting ==
  (\A r \in Requests : Arrived(r) => Finished(r)) =>
    \A k \in DOMAIN apiKeys :
      balance0[apiKeys[k].developerId] - balances[apiKeys[k].developerId]
        = CREDIT_COST_PER_CALL * Cardinality(EventsOf(k))

Timeouts == {"TimeoutError"}
TransportFailures == {"ECONNREFUSED", "terminated"}

\* C13: a finished request whose upstream call ran into the timeout got 504
\* and has one usage event with statusCode 504, with its charge still
\* deducted; one whose upstream call broke at the transport got 502 and has
\* one usage event with statusCode 502.
C13_TimeoutAndTransport ==
  \A r \in Requests :
    Finished(r) /\ req[r].failure # None =>
      LET code == IF req[r].failure \in Timeouts THEN 504 ELSE 502 IN
      req[r].failure \in Timeouts \cup TransportFailures =>
        /\ req[r].status = code
        /\ Cardinality(RecordedFor(r)) = 1
        /\ \A k \in RecordedFor(r) : events[k].statusCode = code
        /\ req[r].deducted = CREDIT_COST_PER_CALL
        /\ balance0[KeyRecord(req[r].apiKeyHeader).developerId]
             - balances[KeyRecord(req[r].apiKeyHeader).developerId] >= CREDIT_COST_PER_CALL

CallsOfRun(run) == {i \in DOMAIN calls : calls[i].run = run}
GroupMembers(group) == {group.eventIds[j] : j \in DOMAIN group.eventIds}
StrictlyBelow(total) == total.k = "num" /\ total.v < MinPayoutUsdc
ExactlyAtThreshold(total) == total.k = "num" /\ total.v = MinPayoutUsdc

\* C14: in the latest run of a runner, an owner group whose sum is strictly
\* below the payout threshold has no client call and no settlement record in
\* that run and all its events are unsettled; once the run has returned, a
\* group whose sum is exactly the threshold has got its call and record.
C14_PayoutThreshold ==
  \A b \in Runners :
    batch[b].run > 0 =>
      \A g \in DOMAIN batch[b].groups :
        LET group == batch[b].groups[g]
            mine == {i \in CallsOfRun(batch[b].run) :
                       calls[i].developerId = group.developerId}
        IN /\ StrictlyBelow(totalAmount(group)) =>
                /\ mine = {}
                /\ \A e \in GroupMembers(group) : SettlementIdIn(events, e) = None
           /\ ExactlyAtThreshold(totalAmount(group)) /\ batch[b].returned =>
                \E i \in mine :
                  /\ Members(calls[i]) = GroupMembers(group)
                  /\ \E s \in DOMAIN settlements :
                       settlements[s].id = calls[i].settlementId

\* A run has returned that skipped one owner's group below the threshold and
\* paid another owner's group of exactly the threshold.
C14_Witness ==
  /\ batch[1].returned
  /\ \E g \in DOMAIN batch[1].groups :
       /\ StrictlyBelow(totalAmount(batch[1].groups[g]))
       /\ \A e \in GroupMembers(batch[1].groups[g]) : SettlementIdIn(events, e) = None
  /\ \E g \in DOMAIN batch[1].groups, i \in CallsOfRun(batch[1].run) :
       /\ ExactlyAtThreshold(totalAmount(batch[1].groups[g]))
       /\ calls[i].developerId = batch[1].groups[g].developerId
       /\ Completed(calls[i])

\* The events runBatch takes into account for an owner: unsettled, not of a
\* charge <= 0, of an API the registry resolves to that owner.
EligibleFor(d) ==
  {k \in DOMAIN events :
     /\ events[k].settlementId = None
     /\ ~(events[k].amountUsdc.k = "num" /\ events[k].amountUsdc.v <= 0)
     /\ Resolved(resolve(events[k].apiId))
     /\ resolve(events[k].apiId).developerId = d}
Min2(a, b) == IF a < b THEN a ELSE b
GroupsOf(groups, d) == {g \in DOMAIN groups : groups[g].developerId = d}
Owners == {"dev_001", "dev_002"}

C15_State ==
  /\ \A i \in DOMAIN calls : Len(calls[i].eventIds) <= MaxEventsPerBatch
  /\ \A i, j \in DOMAIN calls :
       i # j /\ calls[i].run = calls[j].run => calls[i].developerId # calls[j].developerId
C15_Step ==
  /\ runs' = runs + 1 =>
       \A d \in Owners :
         LET elig == EligibleFor(d)
             mine == GroupsOf(batch'[1].groups, d)
             taken == {k \in elig :
                         Cardinality({l \in elig : l < k}) < MaxEventsPerBatch}
         IN IF elig = {} THEN mine = {}
            ELSE /\ Cardinality(mine) = 1
                 /\ \A g \in mine :
                      /\ Len(batch'[1].groups[g].eventIds)
                           = Min2(MaxEventsPerBatch, Cardinality(elig))
                      /\ GroupMembers(batch'[1].groups[g]) = {events[k].id : k \in taken}
  /\ \A i \in DOMAIN calls :
       answer' # answer /\ answer'.settlementId = calls[i].settlementId =>
         \A k \in DOMAIN events :
           events'[k].settlementId # events[k].settlementId =>
             /\ events[k].id \in Members(calls[i])
             /\ events'[k].settlementId = calls[i].settlementId

IsOrphan(k) == ~Resolved(resolve(events[k].apiId))
PositiveCharge(k) == events[k].amountUsdc.k = "num" /\ events[k].amountUsdc.v > 0

C16_State ==
  /\ \A k \in DOMAIN events :
       IsOrphan(k) =>
         /\ events[k].settlementId = None
         /\ \A i \in DOMAIN calls : events[k].id \notin Members(calls[i])
         /\ \A b \in Runners : \A g \in DOMAIN batch[b].groups :
              events[k].id \notin GroupMembers(batch[b].groups[g])
  /\ \A b \in Runners :
       batch[b].returned /\ batch[b].groups = <<>> =>
         /\ batch[b].processed = 0 /\ batch[b].errors = 0
         /\ CallsOfRun(batch[b].run) = {}
C16_Step ==
  runs' = runs + 1 =>
    \A k \in DOMAIN events :
      events[k].settlementId = None /\ PositiveCharge(k) /\ ~IsOrphan(k) =>
        \E g \in DOMAIN batch'[1].groups :
          /\ batch'[1].groups[g].developerId = resolve(events[k].apiId).developerId
          /\ \/ events[k].id \in GroupMembers(batch'[1].groups[g])
             \/ Len(batch'[1].groups[g].eventIds) = MaxEventsPerBatch

\* C16: an event whose apiId the registry does not resolve is unsettled, in
\* no group and in no client call, and a run that found nothing but such
\* events returns processed 0 and errors 0; a run that starts once the
\* registry resolves the apiId takes the event into its owner's group (up to
\* the cap) like any other.
C16_OrphanSkipped == []C16_State /\ [][C16_Step]_vars

\* An event of the unregistered API was passed over by the first run, which
\* paid a later event of the same owner-to-be without filling the group, and
\* was settled by the second run after the API had been registered.
C16_Witness ==
  \E k \in DOMAIN events, i, j \in DOMAIN calls :
    /\ events[k].apiId = "api_unknown"
    /\ calls[i].run = 1 /\ Completed(calls[i])
    /\ calls[i].developerId = LateEntry.developerId
    /\ Len(calls[i].eventIds) < MaxEventsPerBatch
    /\ \E l \in DOMAIN events : l > k /\ events[l].id \in Members(calls[i])
    /\ calls[j].run = 2 /\ Completed(calls[j])
    /\ events[k].id \in Members(calls[j])
    /\ events[k].settlementId = calls[j].settlementId

\* C17: every event of a client call has a positive charge, every settlement
\* amount is a number, and an event whose charge is zero, negative or absent
\* is unsettled.
C17_PositiveChargeOnly ==
  /\ \A i \in DOMAIN calls, k \in DOMAIN events :
       events[k].id \in Members(calls[i]) => PositiveCharge(k)
  /\ \A s \in DOMAIN settlements : settlements[s].amount.k = "num"
  /\ \A k \in DOMAIN events : ~PositiveCharge(k) => events[k].settlementId = None

RunIds(run) == {calls[i].settlementId : i \in CallsOfRun(run)}

\* The sum, in store order, of the amounts of the completed settlements
\* among ids.
RECURSIVE SumCompleted(_, _, _)
SumCompleted(store, ids, sum) ==
  IF store = <<>> THEN sum
  ELSE SumCompleted(Tail(store), ids,
         IF Head(store).id \in ids /\ Head(store).status = "completed"
         THEN JsAdd(sum, Head(store).amount) ELSE sum)

\* C18: the result of a run that returned: processed is the number of events
\* carrying the id of a settlement of that run, settledAmount the sum of the
\* amounts of the run's completed settlements, errors the number of the
\* run's settlements that ended failed.
C18_BatchResult ==
  \A b \in Runners :
    batch[b].returned =>
      LET ids == RunIds(batch[b].run) IN
      /\ batch[b].processed
           = Cardinality({k \in DOMAIN events : events[k].settlementId \in ids})
      /\ batch[b].settledAmount = SumCompleted(settlements, ids, Num(0))
      /\ batch[b].errors
           = Cardinality({s \in DOMAIN settlements :
                            settlements[s].id \in ids /\ settlements[s].status = "failed"})

\* A run returned after settling the group of one owner and failing the
\* group of another, with an orphaned event recorded before them passed over.
C18_Witness ==
  /\ batch[1].returned
  /\ batch[1].processed = 1
  /\ batch[1].errors = 1
  /\ batch[1].settledAmount = Num(MinPayoutUsdc)
  /\ \E k \in DOMAIN events :
       /\ IsOrphan(k) /\ PositiveCharge(k)
       /\ \E l \in DOMAIN events, i \in CallsOfRun(batch[1].run) :
            l > k /\ events[l].id \in Members(calls[i])

C19_State ==
  /\ \A i \in DOMAIN calls :
       /\ Cardinality({s \in DOMAIN settlements :
                         settlements[s].id = calls[i].settlementId}) = 1
       /\ \A s \in DOMAIN settlements :
            settlements[s].id = calls[i].settlementId =>
              /\ settlements[s].amount = calls[i].amount
              /\ settlements[s].amount = SumAmounts(calls[i].eventIds, Num(0))
              /\ settlements[s].developerId = calls[i].developerId
  /\ \A i, j \in DOMAIN calls :
       i # j => calls[i].settlementId # calls[j].settlementId
  /\ \A b \in Runners :
       batch[b].pc = "await" =>
         \E s \in DOMAIN settlements :
           /\ settlements[s].id = batch[b].settlementId
           /\ settlements[s].status = "pending"
C19_Step ==
  \A i \in DOMAIN calls' \ DOMAIN calls :
    /\ \A s \in DOMAIN settlements : settlements[s].id # calls'[i].settlementId
    /\ \E s \in DOMAIN settlements' :
         /\ settlements'[s].id = calls'[i].settlementId
         /\ settlements'[s].status = "pending"
         /\ settlements'[s].tx_hash = None

\* C19: when the client is invoked for a group, the store holds a record
\* with the call's settlement id, created for it, 'pending', without a tx
\* hash and with the group's summed amount and owner; it is pending as long
\* as the call is awaited; and no two client calls share a settlement id.
C19_PendingBeforeCall == []C19_State /\ [][C19_Step]_vars

\* A second client call is awaited on its pending record after an earlier
\* call has been answered.
C19_Witness ==
  /\ batch[1].pc = "await"
  /\ Len(calls) >= 2
  /\ \E s \in DOMAIN settlements :
       settlements[s].id = batch[1].settlementId /\ settlements[s].status = "pending"
  /\ \E s \in DOMAIN settlements : settlements[s].status \in {"completed", "failed"}

FailedCalls(run) == {i \in CallsOfRun(run) : StatusIn(settlements, calls[i].settlementId) = "failed"}

C20_State ==
  /\ \A s, t \in DOMAIN settlements : s # t => settlements[s].id # settlements[t].id
  /\ \A k \in DOMAIN events, s \in DOMAIN settlements :
       settlements[s].status = "failed" => events[k].settlementId # settlements[s].id
  /\ \A b \in Runners :
       batch[b].returned /\ batch[b].run >= 2 =>
         \A i \in FailedCalls(batch[b].run - 1) :
           \A g \in GroupsOf(batch[b].groups, calls[i].developerId) :
             ~StrictlyBelow(totalAmount(batch[b].groups[g])) =>
               \E j \in CallsOfRun(batch[b].run) :
                 /\ calls[j].developerId = calls[i].developerId
                 /\ calls[j].settlementId # calls[i].settlementId
                 /\ \A e \in Members(calls[i]) :
                      e \in Members(calls[j]) \/ Len(calls[j].eventIds) = MaxEventsPerBatch
C20_Step ==
  \A s \in DOMAIN settlements :
    settlements[s].status = "failed" => settlements'[s] = settlements[s]

\* C20: settlement ids are never reused; no event carries the id of a failed
\* settlement; a failed record never changes; and the run after one in which
\* an owner's settlement failed, once it has returned, has made a call under
\* a new id for that owner's group if the group meets the threshold, holding
\* the events of the failed settlement (as far as the cap leaves room).
C20_RetryByReaggregation == []C20_State /\ [][C20_Step]_vars

\* The first run's settlement failed and the second run completed a new
\* settlement holding the same events.
C20_Witness ==
  /\ batch[1].returned /\ batch[1].run = 2
  /\ \E i \in FailedCalls(1), j \in CallsOfRun(2) :
       /\ calls[j].developerId = calls[i].developerId
       /\ Members(calls[i]) \subseteq Members(calls[j])
       /\ Completed(calls[j])
       /\ \A e \in Members(calls[i]) : SettlementIdIn(events, e) = calls[j].settlementId

\* C21: at the moment the client answers a call with success, the settlement
\* of the call becomes 'completed' with the returned transaction reference
\* and every event of the group carries the settlement's id, whether or not
\* the result holds a transaction hash.
C21_SuccessCompletes ==
  [][\A i \in DOMAIN calls :
       /\ answer' # answer
       /\ answer'.settlementId = calls[i].settlementId
       /\ ~answer'.outcome.rejected
       /\ answer'.outcome.success
       => /\ \E s \in DOMAIN settlements' :
               /\ settlements'[s].id = calls[i].settlementId
               /\ settlements'[s].status = "completed"
               /\ settlements'[s].tx_hash = answer'.outcome.txHash
          /\ \A e \in Members(calls[i]) :
               SettlementIdIn(events', e) = calls[i].settlementId]_vars

Responded(r) == req[r].pc = "done" \/ (req[r].pc = "crashed" /\ req[r].headersSent)

\* C22: every response carries this request's correlation id in the
\* x-request-id header, and no two requests have the same id.
C22_CorrelationHeader ==
  /\ \A r \in Requests : Responded(r) => req[r].xRequestId = requestId(r)
  /\ \A r, q \in Requests : r # q => requestId(r) # requestId(q)

UnknownCredential(r) ==
  req[r].apiKeyHeader # None /\ req[r].apiKeyHeader \notin DOMAIN apiKeys
ForeignCredential(r) ==
  /\ req[r].apiKeyHeader \in DOMAIN apiKeys
  /\ apiKeys[req[r].apiKeyHeader].apiId # resolve(req[r].apiSlugOrId).id

\* What the caller can see of a response, the correlation id left out.
Visible(r) ==
  [status |-> req[r].status, error |-> req[r].error,
   balance |-> req[r].bodyBalance, retryAfter |-> req[r].retryAfter,
   hasHeaderId |-> req[r].xRequestId # None, hasBodyId |-> req[r].bodyRequestId # None]

\* C23: of two finished requests for the same resolved API, one with an
\* unknown credential and one with a credential bound to another API, both
\* got 401 with the same error and differ in nothing visible but the
\* correlation id; neither reached the rate limiter or billing.
C23_KeyScopeHidden ==
  \A r, q \in Requests :
    /\ Finished(r) /\ Finished(q)
    /\ Resolved(resolve(req[r].apiSlugOrId))
    /\ resolve(req[r].apiSlugOrId) = resolve(req[q].apiSlugOrId)
    /\ UnknownCredential(r) /\ ForeignCredential(q)
    => /\ req[r].status = 401 /\ req[q].status = 401
       /\ Visible(r) = Visible(q)
       /\ ~req[r].checked /\ ~req[q].checked
       /\ req[r].billingCalls = 0 /\ req[q].billingCalls = 0
       /\ req[r].deducted = 0 /\ req[q].deducted = 0

\* A request with an unknown credential and one with the credential of
\* another API have both been answered for the same API, after a valid
\* request had opened a rate-limit window.
C23_Witness ==
  /\ \E r, q \in Requests :
       /\ Finished(r) /\ Finished(q)
       /\ Resolved(resolve(req[r].apiSlugOrId))
       /\ resolve(req[r].apiSlugOrId) = resolve(req[q].apiSlugOrId)
       /\ UnknownCredential(r) /\ ForeignCredential(q)
  /\ \E k \in DOMAIN windows : windows[k].active

StripNames == {DEFAULT_STRIP_HEADERS[i] : i \in DOMAIN DEFAULT_STRIP_HEADERS}
SingleValued(v) == v # Absent /\ v # ArrayValue

\* C24: the header set sent upstream holds no header of the strip-list, in
\* particular neither x-api-key nor host; it holds every other inbound
\* header with a single string value, unchanged; and its x-request-id is the
\* id of this request, whatever the caller sent under that name.
C24_HeaderHygiene ==
  fwd.pc = "built" =>
    /\ \A n \in DOMAIN fwd.forwardHeaders :
         n \in StripNames => fwd.forwardHeaders[n] = Absent
    /\ fwd.forwardHeaders["x-api-key"] = Absent
    /\ fwd.forwardHeaders["host"] = Absent
    /\ \A n \in InboundNames \ (StripNames \cup {"x-request-id"}) :
         SingleValued(fwd.headers[n]) => fwd.forwardHeaders[n] = fwd.headers[n]
    /\ fwd.forwardHeaders["x-request-id"] = requestId(1)

\* The header set was built for a request that came with a credential, a
\* host, a connection header, an x-request-id of its own and an accept
\* header.
C24_Witness ==
  /\ fwd.pc = "built"
  /\ \A n \in {"x-api-key", "host", "connection", "x-request-id", "accept"} :
       SingleValued(fwd.headers[n])
  /\ fwd.forwardHeaders["accept"] = "from-caller"

\* C25: for every entry passed to register, resolve of its id and resolve
\* of its slug both return that entry.
C25_RegistryConsistent ==
  \A e \in registered : resolve(e.id) = e /\ resolve(e.slug) = e

ProxyStatuses == {404, 401, 429, 402, 504, 502}

\* C26: a response to a request whose upstream answered, and whose body no
\* failure cut off before anything was sent, has the upstream's status; any
\* other response has one of 404, 401, 429, 402, 504, 502.
C26_StatusVerbatim ==
  \A r \in Requests :
    Responded(r) =>
      IF req[r].upstreamAnswer # 0 /\ (req[r].failure = None \/ req[r].pc = "crashed")
      THEN req[r].status = req[r].upstreamAnswer
      ELSE req[r].status \in ProxyStatuses

\* One request got its upstream's 500, one the proxy's own 502 for an
\* upstream that never answered, and one the proxy's 402.
C26_Witness ==
  \E r, q, p \in Requests :
    /\ req[r].pc = "done" /\ req[r].upstreamAnswer = 500 /\ req[r].status = 500
    /\ req[q].pc = "done" /\ req[q].upstreamCalls > 0 /\ req[q].upstreamAnswer = 0
    /\ req[q].status = 502
    /\ req[p].pc = "done" /\ req[p].status = 402

\* The hint in whole seconds, rounded up: the least n with n * 1000 >= ms.
WholeSeconds(ms) ==
  CHOOSE n \in -1..3 : n * 1000 >= ms /\ (n - 1) * 1000 < ms

\* C27: a request the limiter denied got 429 with a Retry-After of the hint
\* rounded up to whole seconds, of 1 when the limiter gave no hint, and was
\* neither billed nor forwarded.
C27_RetryAfter ==
  probe.rq.pc # "new" /\ ~probe.rateResult.allowed =>
    /\ probe.rq.pc = "done"
    /\ probe.rq.status = 429
    /\ probe.rq.retryAfter =
         IF probe.rateResult.retryAfterMs.k = "num"
         THEN WholeSeconds(probe.rateResult.retryAfterMs.v)
         ELSE 1
    /\ probe.rq.billingCalls = 0
    /\ probe.rq.upstreamCalls = 0

\* A request was denied with a hint of 1001 ms and told to retry after 2 s.
C27_Witness ==
  /\ probe.rq.pc = "done"
  /\ probe.rateResult = [allowed |-> FALSE, retryAfterMs |-> Num(1001)]
  /\ probe.rq.retryAfter = 2

C28_Step ==
  \A r \in Requests :
    req[r].pc = "billing" /\ req'[r].pc # "billing" =>
      LET d == KeyRecord(req[r].apiKeyHeader).developerId IN
      IF balances[d] < CREDIT_COST_PER_CALL
      THEN /\ req'[r].pc = "done" /\ req'[r].status = 402
           /\ req'[r].bodyBalance = balances[d]
           /\ balances' = balances
      ELSE /\ req'[r].status # 402
           /\ balances'[d] = balances[d] - CREDIT_COST_PER_CALL
           /\ \A o \in Developers \ {d} : balances'[o] = balances[o]
C28_State ==
  \A r \in Requests :
    req[r].pc = "done" /\ req[r].status = 402 =>
      /\ req[r].deducted = 0
      /\ req[r].upstreamCalls = 0
      /\ RecordedFor(r) = {}

\* C28: when billing answers a request whose account cannot cover the
\* charge, the request gets 402 with the account's balance in the body and
\* no balance changes; otherwise the account loses exactly the charge and
\* no other account changes; a 402 request deducted nothing.
C28_BillingFailure == []C28_State /\ [][C28_Step]_vars

\* One request was charged and forwarded, a later one got 402 showing the
\* balance of 0 that was left.
C28_Witness ==
  \E r, q \in Requests :
    /\ req[r].pc = "done" /\ req[r].deducted = CREDIT_COST_PER_CALL
    /\ req[q].pc = "done" /\ req[q].status = 402 /\ req[q].bodyBalance = 0

Overlapped(i, j) == calls[i].during = calls[j].run \/ calls[j].during = calls[i].run
DoublePaid(i, j) ==
  /\ i # j /\ Completed(calls[i]) /\ Completed(calls[j])
  /\ Members(calls[i]) \cap Members(calls[j]) # {}

\* C29: when runBatch may be called while another call awaits the settlement
\* client, an event can be in two completed settlements, and it is so only
\* through two runs of which one started while the other was in flight.
C29_OverlapDoublePays ==
  \A i, j \in DOMAIN calls :
    DoublePaid(i, j) => calls[i].run # calls[j].run /\ Overlapped(i, j)

\* The second run started while the first awaited the client, both grouped
\* the same event, and both settlements completed: the event was paid twice.
C29_Witness ==
  \E i, j \in DOMAIN calls :
    /\ DoublePaid(i, j)
    /\ calls[i].run = 1 /\ calls[j].run = 2 /\ calls[j].during = 1
    /\ Members(calls[i]) = Members(calls[j])

ProxyStep == req' # req
BatchStep == batch' # batch
SameButSettlement(e, f) ==
  [e EXCEPT !.settlementId = None] = [f EXCEPT !.settlementId = None]

\* C30: a step of handleProxy leaves every settlement record and every
\* stored usage event as they are, and the event it adds is unsettled; a
\* step of runBatch adds no event, changes nothing of an event but its
\* settlementId, and leaves balances and rate-limit windows alone; and
\* settlement records and settlementIds change in steps of runBatch only.
C30_OwnershipFrame ==
  [][/\ ProxyStep =>
          /\ settlements' = settlements
          /\ \A k \in DOMAIN events : events'[k] = events[k]
          /\ \A k \in DOMAIN events' \ DOMAIN events : events'[k].settlementId = None
     /\ BatchStep =>
          /\ DOMAIN events' = DOMAIN events
          /\ \A k \in DOMAIN events : SameButSettlement(events'[k], events[k])
          /\ balances' = balances
          /\ windows' = windows
     /\ ( \/ settlements' # settlements
          \/ \E k \in DOMAIN events : events'[k].settlementId # events[k].settlementId )
        => BatchStep /\ ~ProxyStep]_vars

\* The event a charged proxied request recorded carries the id of a
\* settlement a later run completed.
C30_Witness ==
  /\ req[1].pc = "done" /\ req[1].deducted = CREDIT_COST_PER_CALL
  /\ balances # balance0
  /\ \E k \in RecordedFor(1) :
       /\ events[k].settlementId # None
       /\ StatusIn(settlements, events[k].settlementId) = "completed"

\* C31: a limiter created with capacity 0 denies every check of every
\* credential, the first check of a credential without a window and a check
\* made a full window after an earlier one included, and starts no window.
C31_ZeroCapacityDenies ==
  limiter.capacity = 0 =>
    /\ \A i \in DOMAIN limiter.log : ~limiter.log[i].allowed
    /\ \A k \in DOMAIN apiKeys : limiter.state[k] = NoWindow

\* A limiter of capacity 0 has been checked for both credentials, and for
\* one of them at the start and again a full window later.
C31_Witness ==
  /\ limiter.capacity = 0
  /\ \A k \in DOMAIN apiKeys : \E i \in DOMAIN limiter.log : limiter.log[i].apiKey = k
  /\ \E i, j \in DOMAIN limiter.log :
       /\ i < j
       /\ limiter.log[i].apiKey = limiter.log[j].apiKey
       /\ limiter.log[j].t - limiter.log[i].t >= WindowMs

KeyIdsOf(keys) == {keys[i].id : i \in DOMAIN keys}
\* keys without the one at position index, in the same order.
Without(keys, index) ==
  [i \in 1..(Len(keys) - 1) |-> keys[IF i < index THEN i ELSE i + 1]]

C32_Step ==
  Len(keyStore'.log) > Len(keyStore.log) =>
    LET call == keyStore'.log[Len(keyStore'.log)]
        before == keyStore.apiKeys
        after == keyStore'.apiKeys
        held == {i \in DOMAIN before : before[i].id = call.id}
    IN /\ held = {} => call.result = "not_found" /\ after = before
       /\ \A i \in held :
            IF before[i].userId = call.userId
            THEN /\ call.result = "success"
                 /\ Len(after) = Len(before) - 1
                 /\ after = Without(before, i)
                 /\ call.id \notin KeyIdsOf(after)
            ELSE call.result = "forbidden" /\ after = before
C32_State ==
  \* ids are unique, so "the key with that id" is one key
  /\ \A i, j \in DOMAIN keyStore.apiKeys :
       keyStore.apiKeys[i].id = keyStore.apiKeys[j].id => i = j
  \* a second revoke of a key that was revoked finds nothing
  /\ \A i, j \in DOMAIN keyStore.log :
       i < j /\ keyStore.log[i].id = keyStore.log[j].id
             /\ keyStore.log[i].result = "success"
         => keyStore.log[j].result = "not_found"

\* C32: revoke(id, userId) removes exactly the key with that id when userId
\* owns it and leaves every other key in place and in order; for another
\* user's key it answers 'forbidden', for an id no key has 'not_found', and
\* the store is unchanged in both cases; a second revoke of a revoked key
\* answers 'not_found'.
C32_Revocation == []C32_State /\ [][C32_Step]_vars

\* A key was revoked by its owner and revoked again, another user's key was
\* refused, and the other keys are still stored.
C32_Witness ==
  /\ Len(keyStore.apiKeys) >= 2
  /\ \E i, j, k \in DOMAIN keyStore.log :
       /\ i < j
       /\ keyStore.log[i].id = keyStore.log[j].id
       /\ keyStore.log[i].result = "success"
       /\ keyStore.log[j].result = "not_found"
       /\ keyStore.log[k].result = "forbidden"

\* A query value that is an integer in decimal notation, and its value.
Unsigned(str) == IF str # <<>> /\ Head(str) = "-" THEN Tail(str) ELSE str
IsInteger(q) ==
  /\ q.present
  /\ Unsigned(q.text) # <<>>
  /\ \A i \in DOMAIN Unsigned(q.text) : Unsigned(q.text)[i] \in Digits
RECURSIVE Pow10(_)
Pow10(n) == IF n = 0 THEN 1 ELSE 10 * Pow10(n - 1)
RECURSIVE PlaceSum(_, _)
PlaceSum(body, i) ==
  IF i > Len(body) THEN 0
  ELSE DigitValue(body[i]) * Pow10(Len(body) - i) + PlaceSum(body, i + 1)
IntegerValue(q) ==
  IF Head(q.text) = "-" THEN -PlaceSum(Tail(q.text), 1) ELSE PlaceSum(q.text, 1)
\* A query value that does not start with an integer.
NonNumeric(q) ==
  q.present /\ (Unsigned(q.text) = <<>> \/ Head(Unsigned(q.text)) \notin Digits)
OwnedBy(developerId) ==
  {i \in DOMAIN settlements : settlements[i].developerId = developerId}

FailsMidStream(r) ==
  /\ req[r].pc = "stream" /\ req[r].headersSent
  /\ req'[r].failure # None

\* C34: when the upstream fails after the status and part of the body were
\* sent, the handling of the request still ends without an unhandled error,
\* exactly one usage event is recorded for it, and the event's statusCode is
\* the status the caller received, not 502 or 504.
C34_MidStreamFailure ==
  [][\A r \in Requests :
       FailsMidStream(r) =>
         /\ req'[r].pc = "done"
         /\ Cardinality({k \in DOMAIN events' : events'[k].id = requestId(r)}) = 1
         /\ \A k \in DOMAIN events' :
              events'[k].id = requestId(r) => events'[k].statusCode = req[r].status]_vars

\* The unsettled events of a positive charge whose API resolves to owner d.
PayableFor(d) ==
  {k \in DOMAIN events :
     /\ events[k].settlementId = None
     /\ JsLt(Num(0), events[k].amountUsdc)
     /\ resolve(events[k].apiId).developerId = d}
RECURSIVE ChargeOf(_)
ChargeOf(ks) ==
  IF ks = {} THEN 0
  ELSE LET k == CHOOSE x \in ks : TRUE
       IN events[k].amountUsdc.v + ChargeOf(ks \ {k})
\* Event k is owed a payout: unsettled, of a positive charge, of a resolvable
\* API, and its owner's unsettled charges reach the payout threshold.
Payable(k) ==
  /\ k \in DOMAIN events
  /\ \E d \in Developers :
       k \in PayableFor(d) /\ ChargeOf(PayableFor(d)) >= options.minPayoutUsdc

Settled(k) == k \in DOMAIN events /\ events[k].settlementId # None

\* C35: with runBatch run again and again without overlap, no usage arriving
\* and the client succeeding from some moment on, an event that is owed a
\* payout does not stay owed for ever: it is eventually marked settled (or
\* its owner's unsettled charges have dropped below the threshold), also
\* when its owner has more such events than maxEventsPerBatch and the first
\* maxEventsPerBatch of them sum to less than the threshold.
C35_SettlementLiveness ==
  \A k \in 1..MaxEvents :
    (runs > 0 /\ Payable(k)) ~> (Settled(k) \/ ~Payable(k))

\* a === b on JavaScript numbers: NaN equals nothing.
JsEq(a, b) == a.k = "num" /\ b.k = "num" /\ a.v = b.v
\* The events that carry the id of that settlement.
Carriers(id) == {k \in DOMAIN events : events[k].settlementId = id}
\* The sum of the charges of those events, as JavaScript adds them.
RECURSIVE ChargeSum(_)
ChargeSum(ks) ==
  IF ks = {} THEN Num(0)
  ELSE LET k == CHOOSE x \in ks : TRUE
       IN JsAdd(events[k].amountUsdc, ChargeSum(ks \ {k}))
RECURSIVE AmountSum(_)
AmountSum(is) ==
  IF is = {} THEN Num(0)
  ELSE LET i == CHOOSE x \in is : TRUE
       IN JsAdd(settlements[i].amount, AmountSum(is \ {i}))
CompletedSettlements ==
  {i \in DOMAIN settlements : settlements[i].status = "completed"}

\* C36: between batch runs, the amount of every completed settlement is the
\* sum of the charges of exactly the events that carry its id, those events
\* are of APIs of the settlement's developer, no event carries the id of a
\* pending, failed or unknown settlement, and so the completed amounts add up
\* to the charges of all settled events.
C36_Conservation ==
  NoBatchInFlight =>
    /\ \A i \in CompletedSettlements :
         /\ JsEq(settlements[i].amount, ChargeSum(Carriers(settlements[i].id)))
         /\ \A k \in Carriers(settlements[i].id) :
              resolve(events[k].apiId).developerId = settlements[i].developerId
    /\ \A k \in DOMAIN events :
         events[k].settlementId # None =>
           \E i \in CompletedSettlements : settlements[i].id = events[k].settlementId
    /\ JsEq(AmountSum(CompletedSettlements),
            ChargeSum({k \in DOMAIN events : events[k].settlementId # None}))

\* The request passed resolve and authenticate: its API is registered and
\* its credential is a key of that API.
Authenticated(rq) ==
  /\ Resolved(resolve(rq.apiSlugOrId))
  /\ rq.apiKeyHeader \in DOMAIN apiKeys
  /\ KeyRecord(rq.apiKeyHeader).apiId = resolve(rq.apiSlugOrId).id
\* The window of the credential after one more admission at its count.
Consumed(w, rq) ==
  IF w.active /\ w.start = rq.window
  THEN [w EXCEPT !.count = @ + 1]
  ELSE [active |-> TRUE, start |-> rq.window, count |-> 1]

C37_Step ==
  /\ \A r \in Requests :
       req[r].pc = "new" /\ req'[r].pc # "new" =>
         LET rq == req'[r] IN
         /\ rq.status \in {404, 401} => ~rq.checked /\ windows' = windows
         /\ ~Authenticated(rq) => rq.status \in {404, 401}
         /\ rq.checked /\ rq.allowed =>
              /\ Authenticated(rq)
              /\ windows' = [windows EXCEPT ![rq.apiKeyHeader] = Consumed(@, rq)]
              /\ windows' # windows
  /\ windows' # windows =>
       \E r \in Requests : /\ req[r].pc = "new"
                           /\ req'[r].checked /\ req'[r].allowed
  /\ \A r \in Requests :
       req[r].pc = "billing" /\ req'[r].status = 402 =>
         windows' = windows /\ events' = events
C37_State ==
  \A r \in Requests :
    /\ req[r].status \in {404, 401} => ~req[r].checked /\ req[r].billingCalls = 0
    /\ req[r].status = 402 =>
         /\ req[r].checked /\ req[r].allowed
         /\ r \in AdmittedIn(req[r].apiKeyHeader, req[r].window)
         /\ req[r].upstreamCalls = 0
         /\ RecordedFor(r) = {}

\* C37: only a request that passed resolve and authenticate consumes an
\* admission: a request answered 404 or 401 never reaches the limiter and
\* leaves every window as it was, and a request answered 402 was admitted
\* by the limiter, which counted it in its credential's window, although it
\* is neither forwarded nor recorded.
C37_AdmissionFrame == []C37_State /\ [][C37_Step]_vars

\* One request ended with 404, one with 401, and one with 402 after the
\* limiter had counted it.
C37_Witness ==
  /\ \E r \in Requests : req[r].pc = "done" /\ req[r].status = 404
  /\ \E r \in Requests : req[r].pc = "done" /\ req[r].status = 401
  /\ \E r \in Requests :
       /\ req[r].pc = "done" /\ req[r].status = 402
       /\ windows[req[r].apiKeyHeader].count >= 1

\* Every charge of that developer's usage, settled or not, counted once.
EarnedOnce(developerId) ==
  ChargeSum({k \in DOMAIN events : events[k].userId = developerId})
\* C38: the total_earned of every revenue summary served is the sum of the
\* developer's usage charges, each counted once, whether its event is
\* unsettled, in a completed settlement, in a failed one, or in a pending
\* one whose payout is awaited.
C38_TotalEarnedOnce ==
  [][Len(summary') > Len(summary) =>
       LET served == summary'[Len(summary')]
       IN served.total_earned = EarnedOnce(served.developerId)]_vars

\* The requests that passed billing and whose handling has ended.
BilledAndFinished == {r \in Requests : Finished(r) /\ req[r].billingOk}
C39_State ==
  \* every event is the event of one request, under its correlation id
  /\ \A k \in DOMAIN events :
       \E r \in Requests : /\ events[k].id = requestId(r)
                           /\ events[k].apiKey = req[r].apiKeyHeader
                           /\ req[r].billingOk
  \* no two events share an id
  /\ \A k, l \in DOMAIN events : events[k].id = events[l].id => k = l
  \* as many events as requests that passed billing, whatever the order in
  \* which their upstream calls ended
  /\ Len(events) = Cardinality(BilledAndFinished)
\* Recording appends: the events already stored stay as they are.
C39_Step ==
  /\ Len(events') >= Len(events)
  /\ \A k \in DOMAIN events : events'[k] = events[k]

\* C39: with requests of one credential in flight together, every usage
\* event carries the correlation id of its request and no other event has
\* that id, recording an event leaves the stored ones untouched, and the
\* store holds one event per request that passed billing, in whatever order
\* the upstream calls complete.
C39_ConcurrentRecording == []C39_State /\ [][C39_Step]_vars
====
